---- MODULE Spec2Model ----
(***************************************************************************)
(* Model of the WhatsApp reminder manager's occurrence calculator          *)
(* (src/utils/reminderUtils.ts, getNextOccurrence) and due-reminder        *)
(* scheduler (src/services/NotificationService.ts), together with the      *)
(* store / query-cache pipeline that feeds the scheduler                   *)
(* (ReminderContext, lib/supabase, pages/Index).                           *)
(*                                                                         *)
(* Time.  A JavaScript Date is modelled as a record [day, ms]: the number  *)
(* of local calendar days since 1970-01-01 and the milliseconds elapsed in *)
(* that local day.  The local zone is a fixed offset from UTC (no daylight *)
(* saving).  An ISO string (toISOString) is the same kind of record read   *)
(* in UTC.  A missing Date (null / undefined) is NoDate.                   *)
(***************************************************************************)
EXTENDS Integers, Sequences, FiniteSets, TLC

VARIABLES
    \* ---- occurrence-calculator harness ----
    cPc,          \* "input" before the call, "done" after it
    cReminder,    \* the Reminder passed to the calculator / checkReminder
    cCheck,       \* the value of checkReminder's own new Date(), read before
                  \* getNextOccurrence is called
    cNow,         \* the value of the first new Date() of getNextOccurrence
    cThen,        \* local midnight of the day on which the second new Date()
                  \* of getNextOccurrence fell (only the day of it is used)
    cNext,        \* result of getNextOccurrence(cReminder) (NoDate = null)
    cFired,       \* whether checkReminder(cReminder) fired at cNow
    cCache,       \* the cache after setReminders(<<cReminder, cReminder'>>)
    cBatch,       \* ids fired by one checkReminders pass over CalcBatch(cReminder)
    cSecond,      \* the calendar's second occurrence of cReminder (NoDate = none)
    \* ---- scheduler session ----
    variant,        \* which page is mounted: "index" (pages/Index: the cache is
                    \* fed through setReminders), or a page that calls
                    \* checkReminder itself from its own interval: "poller"
                    \* (every 15 s) or "poller10" (every 10 s)
    now,            \* wall clock: the value new Date() returns (local Date)
    db,             \* the reminders table: sequence of rows (Reminder records)
    queryData,      \* react-query data of ['reminders']: rows last fetched
    stale,          \* the ['reminders'] query is invalidated, refetch pending
    inflight,       \* update requests sent to the store, not yet answered
    reminders,      \* NotificationService.reminders (cached active list)
    checkInterval,  \* NotificationService.checkInterval: 0 = null, else handle
    liveTimers,     \* handles of repeating timers set and not yet cleared
    nextTick,       \* live handle -> time of that timer's next callback
    nextHandle,     \* the handle the next window.setInterval returns
    pollNext,       \* time of the page poller's next callback (NoDate: none)
    fired,          \* log of firings (side effects + due-callback), in order
    failed,         \* indices in fired of firings whose write was rejected
    \* ---- side effects of the service and their surroundings ----
    settings,          \* localStorage item 'wazzup-settings'
    env,               \* the browser: device kind, Notification, audio playback
    autoTriggerEnabled,\* NotificationService.autoTriggerEnabled
    onReminderDue,     \* callbacks.onReminderDue: 0 = the default no-op, else
                       \* the number of the initialize call that registered it
    audio,             \* NotificationService.audio: "none" (null), "paused" or
                       \* "playing" (an element with paused = false)
    volume,            \* audio.volume in tenths (0 while audio is null)
    orphans,           \* playing audio elements the service no longer refers to
    fades,             \* live fade-out intervals set by stopSound(true)
    isSoundPlaying,    \* NotificationService.isSoundPlaying
    mediaEvents,       \* play / pause events queued on the audio elements
    outcome,           \* per firing: its checkReminder promise ("pending",
                       \* "true", "rejected")
    lifecycle,         \* the last two lifecycle calls (initialize, cleanup)
    initsLeft,         \* initialize calls still to come in the observed stretch
    savesLeft,         \* settings saves still to come in the observed stretch
    \* ---- the user's writes to the store ----
    userLast,          \* per reminder id, the user's write the store applied
                       \* last: the row written, or that the row was deleted
    opsLeft,           \* user writes still to come in the observed stretch
    \* ---- deep-link harness ----
    lPc,               \* "input" before openWhatsApp builds the link, "done" after
    lPhone,            \* reminder.phoneNumber, a sequence of characters
    lMessage,          \* reminder.message, a sequence of characters
    lUrl,              \* the URL openWhatsApp hands to the browser
    \* ---- the store's answers on their way to the page ----
    isLoading,         \* the ['reminders'] query has no data yet
    fetching,          \* the answer of the running fetchReminders call, as a
                       \* one-element sequence (<<>>: no call is running)
    changes,           \* postgres_changes messages on their way to the page
    \* ---- the audio elements ----
    wired,             \* the element the service holds is the ringtone made by
                       \* initializeAudio (loop, onplay / onpause / onended)
    strays,            \* playing one-shot elements (/notification.mp3) the
                       \* service does not refer to
    rejections,        \* rejected play() promises of the element the service
                       \* held, whose rejection handler has not run yet
    loading,           \* ringtone elements whose load error has not been
                       \* reported yet
    \* ---- observation ----
    sessionEnd,        \* the time at which observation of the session ends
    jumpsLeft,         \* handler runs still to come during which the clock
                       \* moves on into the next millisecond
    \* ---- history ----
    watched,           \* per cached reminder id, the time since which the
                       \* cache has held it without a break
    clicked            \* notifications the user has clicked

calcVars  == <<cPc, cReminder, cCheck, cNow, cThen, cNext, cFired, cCache, cBatch, cSecond>>
schedVars == <<variant, now, db, queryData, stale, inflight, reminders,
               checkInterval, liveTimers, nextTick, nextHandle, pollNext,
               fired, failed>>
fxVars == <<settings, env, autoTriggerEnabled, onReminderDue, audio, volume,
            orphans, fades, isSoundPlaying, mediaEvents, outcome, lifecycle,
            initsLeft, savesLeft>>
userVars == <<userLast, opsLeft>>
linkVars == <<lPc, lPhone, lMessage, lUrl>>
histVars == <<watched, clicked>>
pipeVars == <<isLoading, fetching, changes>>
elemVars == <<wired, strays, rejections, loading>>
obsVars == <<sessionEnd, jumpsLeft>>
vars == <<cPc, cReminder, cCheck, cNow, cThen, cNext, cFired, cCache, cBatch, cSecond,
          variant, now, db, queryData, stale, inflight, reminders,
          checkInterval, liveTimers, nextTick, nextHandle, pollNext,
          fired, failed,
          settings, env, autoTriggerEnabled, onReminderDue, audio, volume,
          orphans, fades, isSoundPlaying, mediaEvents, outcome, lifecycle,
          initsLeft, savesLeft, userLast, opsLeft,
          lPc, lPhone, lMessage, lUrl, watched, clicked,
          isLoading, fetching, changes, wired, strays, rejections, loading,
          sessionEnd, jumpsLeft>>

----------------------------------------------------------------------------
(* Calendar arithmetic of the host Date object (ECMAScript Date, local     *)
(* time, proleptic Gregorian calendar).                                    *)

MsPerSecond == 1000
MsPerMinute == 60 * MsPerSecond
MsPerHour   == 60 * MsPerMinute
MsPerDay    == 24 * MsPerHour
SecPerDay   == 24 * 60 * 60

NoDate == [day |-> -1, ms |-> -1]

IsLeap(y) == (y % 4 = 0 /\ y % 100 # 0) \/ y % 400 = 0

\* number of days of month m (0 = January .. 11 = December) of year y
DaysInMonth(y, m) ==
    IF m = 1 THEN (IF IsLeap(y) THEN 29 ELSE 28)
    ELSE IF m \in {3, 5, 8, 10} THEN 30 ELSE 31

\* day number of 1 January of year y (ECMAScript DayFromYear)
DayFromYear(y) ==
    365 * (y - 1970) + ((y - 1969) \div 4) - ((y - 1901) \div 100)
        + ((y - 1601) \div 400)

\* days of year y before its month m (ECMAScript MonthFromTime's table)
DaysBeforeMonth(y, m) ==
    <<0, 31, 59, 90, 120, 151, 181, 212, 243, 273, 304, 334>>[m + 1]
        + (IF m >= 2 /\ IsLeap(y) THEN 1 ELSE 0)

\* ECMAScript MakeDay: month and date may lie outside their ranges and carry
MakeDay(y, m, dt) ==
    LET ym == y + (m \div 12)
        mn == m % 12
    IN  DayFromYear(ym) + DaysBeforeMonth(ym, mn) + dt - 1

\* ECMAScript YearFromTime, for day numbers >= 0
YearFromDay(d) ==
    LET y0 == 1970 + (d \div 366)
    IN  IF DayFromYear(y0 + 1) <= d THEN y0 + 1 ELSE y0

\* ECMAScript MonthFromTime
MonthFromDay(d) ==
    LET y  == YearFromDay(d)
        dy == d - DayFromYear(y)
    IN  CHOOSE m \in 0..11 :
            /\ DaysBeforeMonth(y, m) <= dy
            /\ dy < DaysBeforeMonth(y, m) + DaysInMonth(y, m)

\* ECMAScript DateFromTime (day of the month, 1-based)
DateFromDay(d) ==
    LET y == YearFromDay(d)
    IN  d - DayFromYear(y) - DaysBeforeMonth(y, MonthFromDay(d)) + 1

\* Date.prototype.getDay: 0 = Sunday; 1970-01-01 was a Thursday
getDay(t) == (t.day + 4) % 7

getDate(t)  == DateFromDay(t.day)
getMonth(t) == MonthFromDay(t.day)
getFullYear(t) == YearFromDay(t.day)

\* Date.prototype.setHours(hour, minute, 0, 0)
setHours(t, hour, minute) ==
    [day |-> t.day, ms |-> hour * MsPerHour + minute * MsPerMinute]

\* Date.prototype.setDate(n): day n of the current month, overflowing
setDate(t, n) ==
    [day |-> MakeDay(getFullYear(t), getMonth(t), n), ms |-> t.ms]

\* Date.prototype.setMonth(m): same day-of-month number in month m, overflowing
setMonth(t, m) ==
    [day |-> MakeDay(getFullYear(t), m, getDate(t)), ms |-> t.ms]

\* a <= b and a < b on Dates (comparison of getTime())
DateLe(a, b) == a.day < b.day \/ (a.day = b.day /\ a.ms <= b.ms)
DateLt(a, b) == a.day < b.day \/ (a.day = b.day /\ a.ms < b.ms)

\* new Date(t.getTime() + delta), for |delta| < MsPerDay
AddMs(t, delta) ==
    LET m == t.ms + delta
    IN  [day |-> t.day + (m \div MsPerDay), ms |-> m % MsPerDay]

\* Math.floor((a.getTime() - b.getTime()) / 1000); a day is a whole number
\* of seconds, so the days and the in-day parts are divided separately
FloorDiffSecs(a, b) ==
    (a.day - b.day) * SecPerDay + ((a.ms - b.ms) \div MsPerSecond)

\* Offset of the local zone from UTC, in minutes (environment)
TzOffsetMin == 330

\* toISOString: the instant's UTC reading; new Date(iso): back to local
toISOString(t) == AddMs(t, 0 - TzOffsetMin * MsPerMinute)
parseISO(s) == IF s = NoDate THEN NoDate ELSE AddMs(s, TzOffsetMin * MsPerMinute)

----------------------------------------------------------------------------
(* Reminder records (types/reminder.ts).  weekDays is the set of tags of   *)
(* the array (only membership and emptiness are read), or NoWeekDays when  *)
(* the property is absent (undefined / null); an absent monthDay is 0      *)
(* (falsy in the code), an absent date or lastTriggered is NoDate.  date   *)
(* and lastTriggered are ISO strings.                                      *)

WeekDay == {"sun", "mon", "tue", "wed", "thu", "fri", "sat"}

\* the weekDays of a reminder without that property
NoWeekDays == {"absent"}

\* reminderUtils.ts dayMap
dayMap(d) ==
    CASE d = "sun" -> 0 [] d = "mon" -> 1 [] d = "tue" -> 2 [] d = "wed" -> 3
      [] d = "thu" -> 4 [] d = "fri" -> 5 [] d = "sat" -> 6

SetMin(S) == CHOOSE x \in S : \A y \in S : x <= y

\* case 'daily' with < in place of <=
dailyMutStrict(reminderTime, n) ==
    IF DateLt(reminderTime, n)
    THEN setDate(reminderTime, getDate(reminderTime) + 1)
    ELSE reminderTime
\* case 'daily': tomorrow if today's instant is <= now
dailyOccurrence(reminderTime, n) ==
    IF DateLe(reminderTime, n)
    THEN setDate(reminderTime, getDate(reminderTime) + 1)
    ELSE reminderTime

\* case 'weekly' without the move to next week when today's time has passed
weeklyMutStay(weekDays, reminderTime, n) ==
    IF weekDays = NoWeekDays \/ weekDays = {} THEN NoDate
    ELSE LET today == getDay(n)
             weekDayNumbers == {dayMap(d) : d \in weekDays}
             hits == {i \in 0..6 : ((today + i) % 7) \in weekDayNumbers}
         IN  IF hits = {} THEN NoDate
             ELSE setDate(reminderTime, getDate(reminderTime) + SetMin(hits))
\* case 'weekly' where a passed offset 0 moves to the next selected weekday
\* (offsets 1..7) in place of 7 days on
weeklyMutRescan(weekDays, reminderTime, n) ==
    IF weekDays = NoWeekDays \/ weekDays = {} THEN NoDate
    ELSE LET today == getDay(n)
             weekDayNumbers == {dayMap(d) : d \in weekDays}
             hits == {i \in 0..6 : ((today + i) % 7) \in weekDayNumbers}
             later == {i \in 1..7 : ((today + i) % 7) \in weekDayNumbers}
         IN  IF hits = {} THEN NoDate
             ELSE LET daysToAdd == SetMin(hits)
                      rt == setDate(reminderTime,
                                    getDate(reminderTime) + daysToAdd)
                  IN  IF daysToAdd = 0 /\ DateLe(rt, n)
                      THEN setDate(rt, getDate(rt) + SetMin(later))
                      ELSE rt
\* case 'weekly': none without weekDays or with an empty array; else the
\* first offset 0..6 from today whose weekday is selected; offset 0 with the
\* time already passed moves 7 days on
weeklyOccurrence(weekDays, reminderTime, n) ==
    IF weekDays = NoWeekDays \/ weekDays = {} THEN NoDate
    ELSE LET today == getDay(n)
             weekDayNumbers == {dayMap(d) : d \in weekDays}
             hits == {i \in 0..6 : ((today + i) % 7) \in weekDayNumbers}
         IN  IF hits = {} THEN NoDate
             ELSE LET daysToAdd == SetMin(hits)
                      rt == setDate(reminderTime,
                                    getDate(reminderTime) + daysToAdd)
                  IN  IF daysToAdd = 0 /\ DateLe(rt, n)
                      THEN setDate(rt, getDate(rt) + 7)
                      ELSE rt

\* case 'monthly' clamping monthDay to the last day of the targeted month
monthlyMutClamp(monthDay, reminderTime, n) ==
    IF monthDay = 0 THEN NoDate
    ELSE LET y == getFullYear(reminderTime)
             m == getMonth(reminderTime)
             clamp(k) == IF monthDay > DaysInMonth(y + (k \div 12), k % 12)
                         THEN DaysInMonth(y + (k \div 12), k % 12)
                         ELSE monthDay
             rt == setDate(reminderTime, clamp(m))
         IN  IF DateLe(rt, n)
             THEN [day |-> MakeDay(y, m + 1, clamp(m + 1)), ms |-> rt.ms]
             ELSE rt
\* case 'monthly' with a fixed 30-day offset in place of the next month
monthlyMutThirty(monthDay, reminderTime, n) ==
    IF monthDay = 0 THEN NoDate
    ELSE LET rt == setDate(reminderTime, monthDay)
         IN  IF DateLe(rt, n) THEN setDate(rt, getDate(rt) + 30) ELSE rt
\* case 'monthly' without the test for a missing monthDay
monthlyMutNoGuard(monthDay, reminderTime, n) ==
    LET rt == setDate(reminderTime, monthDay)
    IN  IF DateLe(rt, n) THEN setMonth(rt, getMonth(rt) + 1) ELSE rt
\* case 'monthly': day monthDay of this month, or of next month if passed
monthlyOccurrence(monthDay, reminderTime, n) ==
    IF monthDay = 0 THEN NoDate
    ELSE LET rt == setDate(reminderTime, monthDay)
         IN  IF DateLe(rt, n) THEN setMonth(rt, getMonth(rt) + 1) ELSE rt

\* case 'once' with < in place of <=
onceMutStrict(date, time, n) ==
    IF date = NoDate THEN NoDate
    ELSE LET oneTimeDate == setHours(parseISO(date), time.hour, time.minute)
         IN  IF DateLt(oneTimeDate, n) THEN NoDate ELSE oneTimeDate
\* case 'once': the stored date at the reminder's time, null once passed
onceOccurrence(date, time, n) ==
    IF date = NoDate THEN NoDate
    ELSE LET oneTimeDate == setHours(parseISO(date), time.hour, time.minute)
         IN  IF DateLe(oneTimeDate, n) THEN NoDate ELSE oneTimeDate

\* getNextOccurrence(reminder), with n the value of its first new Date()
\* (now) and m the value of its second one (reminderTime)
getNextOccurrence(reminder, n, m) ==
    LET reminderTime == setHours(m, reminder.time.hour, reminder.time.minute)
    IN  CASE reminder.frequency = "daily" ->
                dailyOccurrence(reminderTime, n)
          [] reminder.frequency = "weekly" ->
                weeklyOccurrence(reminder.weekDays, reminderTime, n)
          [] reminder.frequency = "monthly" ->
                monthlyOccurrence(reminder.monthDay, reminderTime, n)
          [] reminder.frequency = "once" ->
                onceOccurrence(reminder.date, reminder.time, n)
          [] OTHER -> NoDate

----------------------------------------------------------------------------
(* NotificationService.checkReminder: the due decision.                    *)

\* "due within 30 seconds": diffSecs >= -30 && diffSecs <= 30
DueToleranceSecs == 30
\* 5 * 60 * 1000
CooldownMs == 5 * 60 * 1000
\* window.setInterval(..., 15000)
TickMs == 15000

\* the due test with a tolerance shorter than the tick period
isDueMutNarrow(nextOccurrence, n) ==
    LET diffSecs == FloorDiffSecs(nextOccurrence, n)
    IN  diffSecs >= -10 /\ diffSecs <= 10
\* const isDue = diffSecs >= -30 && diffSecs <= 30
isDue(nextOccurrence, n) ==
    LET diffSecs == FloorDiffSecs(nextOccurrence, n)
    IN  diffSecs >= 0 - DueToleranceSecs /\ diffSecs <= DueToleranceSecs

\* the cool-down test with <= in place of <
cooledDownMutLe(reminder, n) ==
    LET lastTriggered == parseISO(reminder.lastTriggered)
        fiveMinutesAgo == AddMs(n, 0 - CooldownMs)
    IN  lastTriggered = NoDate \/ DateLe(lastTriggered, fiveMinutesAgo)
\* !lastTriggered || lastTriggered < fiveMinutesAgo
cooledDown(reminder, n) ==
    LET lastTriggered == parseISO(reminder.lastTriggered)
        fiveMinutesAgo == AddMs(n, 0 - CooldownMs)
    IN  lastTriggered = NoDate \/ DateLt(lastTriggered, fiveMinutesAgo)

\* checkReminder without its isActive guard
activeGuardMutNone(reminder) == TRUE
\* the isActive guard of checkReminder
activeGuard(reminder) == reminder.isActive

\* whether checkReminder(reminder) reaches the firing branch, with t the
\* value of its own new Date() (now) and n, m the values of the two
\* new Date() of the getNextOccurrence call that follows
checkFires(reminder, t, n, m) ==
    /\ activeGuard(reminder)
    /\ LET nextOccurrence == getNextOccurrence(reminder, n, m)
       IN  /\ nextOccurrence # NoDate
           /\ isDue(nextOccurrence, t)
           /\ cooledDown(reminder, t)

\* setReminders(list): the cache becomes the active members, in list order
setReminders(list) == SelectSeq(list, LAMBDA r : r.isActive)

----------------------------------------------------------------------------
(* Settings, browser and the sound of the service.                         *)

\* localStorage.getItem('wazzup-settings'): absent, unparsable, or an object
\* with notifications.sound and whatsapp.autoOpen (or with neither)
NoSettings == [kind |-> "none", sound |-> TRUE, autoOpen |-> TRUE]
CorruptSettings == [kind |-> "corrupt", sound |-> TRUE, autoOpen |-> TRUE]
\* the item "{}": an object without notifications and without whatsapp
EmptySettings == [kind |-> "empty", sound |-> TRUE, autoOpen |-> TRUE]
Settings(sound, autoOpen) ==
    [kind |-> "ok", sound |-> sound, autoOpen |-> autoOpen]

\* the browser: mobile user agent or not; Notification permission denied,
\* granted, or granted with a constructor that throws; audio.play()
\* resolving or rejecting
Browser(mobile, notify, play) ==
    [mobile |-> mobile, notify |-> notify, play |-> play]

\* audio.volume = 0.7, and the volume of a new Audio()
RingVolume == 7
FullVolume == 10

\* the sound fields of the service and the elements around it as one value
Sound(a, v, f, ev, flag, w, st, rj) ==
    [audio |-> a, volume |-> v, fades |-> f, events |-> ev, flag |-> flag,
     wired |-> w, strays |-> st, rejections |-> rj]

\* whether play() of the element the service holds resolves: in a browser
\* whose play is "ok"; in one whose play is "fallback" only the elements
\* for /notification.mp3 play, the ringtone file cannot be loaded or played;
\* in one whose play is "rejected" every play() rejects
plays(snd, browser) ==
    browser.play = "ok" \/ (browser.play = "fallback" /\ ~snd.wired)

\* playSound(): nothing when sound is disabled in the settings (a settings
\* item that cannot be parsed is logged and ignored) or there is no audio;
\* otherwise volume 0.7 and, if paused, play() from the beginning; when
\* that play() rejects, the rejection handler runs after the caller has
\* returned
playSound(snd, stored, browser) ==
    IF stored.kind = "ok" /\ stored.sound = FALSE THEN snd
    ELSE IF snd.audio = "none" THEN snd
    ELSE LET loud == [snd EXCEPT !.volume = RingVolume]
         IN  IF snd.audio # "paused" THEN loud
             ELSE IF plays(snd, browser)
             THEN [loud EXCEPT !.audio = "playing",
                               !.events = IF snd.wired THEN Append(@, "play")
                                          ELSE @]
             ELSE [loud EXCEPT !.rejections = @ + 1]

\* stopSound(useFadeEffect): when the audio is playing, either start a
\* fade-out interval or pause at once (the pause event reaches the onpause
\* handler of a ringtone element)
stopSound(snd, useFadeEffect) ==
    IF snd.audio # "playing" THEN snd
    ELSE IF useFadeEffect
    THEN [snd EXCEPT !.fades = @ + 1]
    ELSE [snd EXCEPT !.audio = "paused", !.volume = RingVolume,
                     !.events = IF snd.wired THEN Append(@, "pause") ELSE @,
                     !.flag = FALSE]

\* openWhatsApp(reminder): navigate on mobile; on desktop open a tab and stop
\* the sound (with the default fade)
openWhatsApp(snd, browser) ==
    IF browser.mobile THEN snd ELSE stopSound(snd, TRUE)

\* the service as constructed, in a browser with sound and auto-open
\* switched off in the stored settings, a desktop user agent and
\* notifications denied
FxRest ==
    /\ settings = Settings(FALSE, FALSE)
    /\ env = Browser(FALSE, "denied", "ok")
    /\ autoTriggerEnabled = TRUE
    /\ onReminderDue = 0
    /\ audio = "none"
    /\ volume = 0
    /\ orphans = 0
    /\ fades = 0
    /\ isSoundPlaying = FALSE
    /\ mediaEvents = <<>>
    /\ outcome = <<>>
    /\ lifecycle = <<>>
    /\ initsLeft = 0
    /\ savesLeft = 0
    /\ userLast = {}
    /\ opsLeft = 0
    /\ wired = FALSE
    /\ strays = 0
    /\ rejections = 0
    /\ loading = 0

\* nothing is cached and no notification has been clicked
HistRest ==
    /\ watched = <<>>
    /\ clicked = 0

\* no link has been asked for
LinkRest ==
    /\ lPc = "idle"
    /\ lPhone = <<>>
    /\ lMessage = <<>>
    /\ lUrl = <<>>

----------------------------------------------------------------------------
(* Harness for the pure functions: one call of getNextOccurrence and of    *)
(* checkReminder's due decision on an input drawn from bounded sets.       *)

\* days on each side of a month boundary from which "now" is drawn
HalfSpan == 3
\* largest number of selected weekdays of a weekly reminder
MaxWeekDays == 2

\* last days of months around which "now" is drawn: year end, 31-day,
\* 28-day and 29-day February, 31-day before 30-day, 30-day month
MonthEnds ==
    { MakeDay(2022, 11, 31), MakeDay(2023, 0, 31), MakeDay(2023, 1, 28),
      MakeDay(2024, 1, 29), MakeDay(2024, 2, 31), MakeDay(2024, 3, 30) }

CalcDays == UNION { (e - HalfSpan + 1) .. (e + HalfSpan) : e \in MonthEnds }

CalcTimes == { [hour |-> 0, minute |-> 0], [hour |-> 9, minute |-> 0],
               [hour |-> 23, minute |-> 59] }

\* offsets (ms) of "now" from the reminder's time of day
CalcOffsets == { -31000, -30999, -30000, -1, 0, 1, 5000, 30000, 65000 }

TimeMs(time) == time.hour * MsPerHour + time.minute * MsPerMinute

\* the clock readings (ms of the day) from which "now" is drawn for a
\* reminder at time: around the time of day, and the day's last millisecond
CalcClock(time) ==
    { x \in { TimeMs(time) + o : o \in CalcOffsets } : x >= 0 /\ x < MsPerDay }
    \cup { MsPerDay - 1 }

Reminder(id, frequency, time, weekDays, monthDay, date, isActive, lastTriggered) ==
    [ id |-> id, frequency |-> frequency, time |-> time,
      weekDays |-> weekDays, monthDay |-> monthDay, date |-> date,
      isActive |-> isActive, lastTriggered |-> lastTriggered ]

CalcWeekDaySets ==
    { S \in SUBSET WeekDay : Cardinality(S) <= MaxWeekDays } \cup { NoWeekDays }
CalcMonthDays == { 0, 1, 15, 28, 29, 30, 31 }

\* ISO dates a 'once' reminder may hold, relative to now: the date picker's
\* local midnight, or another instant of the day, one day around now; or none
CalcOnceDates(n) ==
    { NoDate } \cup
    { toISOString([day |-> n.day + k, ms |-> m]) :
        k \in {-1, 0, 1}, m \in {0, 15 * MsPerHour} }

\* lastTriggered values relative to now: never, 2 minutes ago, exactly the
\* cool-down ago, just older than the cool-down
CalcLastTriggered(n) ==
    { NoDate, toISOString(AddMs(n, 0 - 2 * MsPerMinute)),
      toISOString(AddMs(n, 0 - CooldownMs)),
      toISOString(AddMs(n, 0 - CooldownMs - 1)) }

\* the reminders the harness draws for a call at n: every frequency, with
\* complete and incomplete configurations, active and inactive
CalcReminderAt(r, t, n) ==
    \/ \E a \in BOOLEAN, lt \in CalcLastTriggered(n) :
          r = Reminder(1, "daily", t, NoWeekDays, 0, NoDate, a, lt)
    \/ \E a \in BOOLEAN, w \in CalcWeekDaySets :
          r = Reminder(1, "weekly", t, w, 0, NoDate, a, NoDate)
    \/ \E a \in BOOLEAN, md \in CalcMonthDays :
          r = Reminder(1, "monthly", t, NoWeekDays, md, NoDate, a, NoDate)
    \/ \E a \in BOOLEAN, dt \in CalcOnceDates(n) :
          r = Reminder(1, "once", t, NoWeekDays, 0, dt, a, NoDate)

\* the scheduler session before the view is mounted, with an empty store
SchedRest ==
    /\ variant = "index"
    /\ sessionEnd = NoDate
    /\ jumpsLeft = 0
    /\ now = [day |-> MakeDay(2024, 0, 15), ms |-> 0]
    /\ db = <<>>
    /\ queryData = <<>>
    /\ stale = FALSE
    /\ inflight = <<>>
    /\ reminders = <<>>
    /\ checkInterval = 0
    /\ liveTimers = {}
    /\ nextTick = <<>>
    /\ nextHandle = 1
    /\ pollNext = NoDate
    /\ fired = <<>>
    /\ failed = {}
    /\ isLoading = TRUE
    /\ fetching = <<>>
    /\ changes = 0

InitCalc ==
    /\ cPc = "input"
    /\ \E t \in CalcTimes, d \in CalcDays :
          \E x \in CalcClock(t) :
              /\ cNow = [day |-> d, ms |-> x]
              /\ CalcReminderAt(cReminder, t, cNow)
    /\ cCheck = NoDate
    /\ cThen = NoDate
    /\ cNext = NoDate
    /\ cFired = FALSE
    /\ cCache = <<>>
    /\ cBatch = {}
    /\ cSecond = NoDate
    /\ SchedRest
    /\ FxRest
    /\ LinkRest
    /\ HistRest

\* the list handed to setReminders: the reminder and a second one with the
\* opposite isActive
CalcList(r) == << r, [r EXCEPT !.id = 2, !.isActive = ~r.isActive] >>

\* the cache of a checkReminders pass: the reminder and a complete daily
\* reminder at the same time of day
CalcBatch(r) ==
    << r, Reminder(2, "daily", r.time, NoWeekDays, 0, NoDate, TRUE, NoDate) >>

\* checkReminders over list: the ids of the reminders whose checkReminder
\* call fires, clock[i] being the values << t, n, m >> of the new Date() of
\* the call for list[i]
checkRemindersFired(list, clock) ==
    { list[i].id :
        i \in { j \in 1..Len(list) :
                  checkFires(list[j], clock[j][1], clock[j][2], clock[j][3]) } }

\* CalendarView's second occurrence of a recurring reminder: the calculator
\* called again on a copy whose lastTriggered is the first result's ISO
\* string; none for a one-time reminder or without a first result; n, m
\* are the values of the two new Date() of the first call, n2, m2 those of
\* the second call
secondOccurrence(reminder, n, m, n2, m2) ==
    LET nextOccurrence == getNextOccurrence(reminder, n, m)
    IN  IF nextOccurrence = NoDate \/ reminder.frequency = "once" THEN NoDate
        ELSE getNextOccurrence(
                [reminder EXCEPT !.lastTriggered = toISOString(nextOccurrence)],
                n2, m2)

\* the values of k successive new Date() of which the i-th is n, when the
\* clock moves on into the next millisecond just before the j-th of them
\* (j = k + 1: it does not move on)
ClockRun(n, i, k, j) ==
    [x \in 1..k |->
        AddMs(n, (IF x >= j THEN 1 ELSE 0) - (IF i >= j THEN 1 ELSE 0))]

\* the calls, in the order of their new Date(): the first checkReminder call
\* of a checkReminders pass over CalcBatch(cReminder) (three readings);
\* the second call of that pass, whose readings are also those of
\* checkReminder(cReminder) (cCheck, then cNow and a third one inside
\* getNextOccurrence(cReminder)); the second getNextOccurrence call of the
\* calendar (two readings); and setReminders(CalcList(cReminder))
CalcCall ==
    /\ cPc = "input"
    /\ cPc' = "done"
    /\ \E j \in 2..9 :
          \E run \in { ClockRun(cNow, 5, 8, j) } :
              /\ cCheck' = run[4]
              /\ cThen' = setHours(run[6], 0, 0)
              /\ cNext' = getNextOccurrence(cReminder, run[5], run[6])
              /\ cFired' = checkFires(cReminder, run[4], run[5], run[6])
              /\ cBatch' = checkRemindersFired(
                              CalcBatch(cReminder),
                              << << run[1], run[2], run[3] >>,
                                 << run[4], run[5], run[6] >> >>)
              /\ cSecond' = secondOccurrence(cReminder, run[5], run[6],
                                             run[7], run[8])
    /\ cCache' = setReminders(CalcList(cReminder))
    /\ UNCHANGED <<cReminder, cNow>>
    /\ UNCHANGED obsVars
    /\ UNCHANGED pipeVars
    /\ UNCHANGED elemVars
    /\ UNCHANGED schedVars
    /\ UNCHANGED fxVars
    /\ UNCHANGED userVars
    /\ UNCHANGED linkVars
    /\ UNCHANGED histVars

NextCalc == CalcCall

SpecCalc == InitCalc /\ [][NextCalc]_vars

----------------------------------------------------------------------------
(* The deep link: utils/phoneUtils.ts, utils/reminderUtils.ts              *)
(* getWhatsAppLink and NotificationService.openWhatsApp.  A string is the  *)
(* sequence of its characters.                                             *)

Digit == {"0", "1", "2", "3", "4", "5", "6", "7", "8", "9"}

\* phoneNumber.replace(/\D/g, '')
cleaned(phoneNumber) == SelectSeq(phoneNumber, LAMBDA c : c \in Digit)

\* s.startsWith(prefix)
startsWith(s, prefix) ==
    Len(s) >= Len(prefix) /\ SubSeq(s, 1, Len(prefix)) = prefix

WaMe == <<"h", "t", "t", "p", "s", ":", "/", "/", "w", "a", ".", "m", "e", "/">>
TextParam == <<"t", "e", "x", "t", "=">>

\* characters encodeURIComponent leaves as they are (those of the alphabet
\* the messages are drawn from)
Unreserved == {"a", "b", "h", "i", "!", "-"} \cup Digit

\* the UTF-8 percent escape of a reserved character
escape(c) ==
    CASE c = " " -> <<"%", "2", "0">>
      [] c = "&" -> <<"%", "2", "6">>
      [] c = "?" -> <<"%", "3", "F">>
      [] c = "=" -> <<"%", "3", "D">>
      [] c = "%" -> <<"%", "2", "5">>

RECURSIVE encodeURIComponent(_)
encodeURIComponent(str) ==
    IF str = <<>> THEN <<>>
    ELSE (IF Head(str) \in Unreserved THEN <<Head(str)>> ELSE escape(Head(str)))
         \o encodeURIComponent(Tail(str))

\* /^[6-9]/.test(digits)
startsSixToNine(digits) == Len(digits) > 0 /\ digits[1] \in {"6", "7", "8", "9"}

\* phoneUtils.ts ensureIndianCountryCode
ensureIndianCountryCode(phoneNumber) ==
    IF Len(cleaned(phoneNumber)) = 10 /\ startsSixToNine(cleaned(phoneNumber))
    THEN <<"9", "1">> \o cleaned(phoneNumber)
    ELSE cleaned(phoneNumber)

\* phoneUtils.ts getIndianWhatsAppLink: the text parameter is left out for
\* an empty message
getIndianWhatsAppLink(phoneNumber, message) ==
    IF message # <<>>
    THEN WaMe \o ensureIndianCountryCode(phoneNumber) \o <<"?">> \o TextParam
              \o encodeURIComponent(message)
    ELSE WaMe \o ensureIndianCountryCode(phoneNumber)

\* phoneUtils.ts isLikelyIndianNumber
isLikelyIndianNumber(phoneNumber) ==
    \/ Len(cleaned(phoneNumber)) = 10 /\ startsSixToNine(cleaned(phoneNumber))
    \/ startsWith(cleaned(phoneNumber), <<"9", "1">>)
          /\ Len(cleaned(phoneNumber)) = 12
    \/ startsWith(cleaned(phoneNumber), <<"0", "9", "1">>)
          /\ Len(cleaned(phoneNumber)) = 13

\* reminderUtils.ts getWhatsAppLink
getWhatsAppLink(phoneNumber) == WaMe \o cleaned(phoneNumber)

\* the URL openWhatsApp opens (window.location.href or window.open)
whatsappUrl(phoneNumber, message) ==
    IF isLikelyIndianNumber(phoneNumber)
    THEN getIndianWhatsAppLink(phoneNumber, message)
    ELSE getWhatsAppLink(phoneNumber) \o <<"&">> \o TextParam
             \o encodeURIComponent(message)

\* phone numbers: a prefix, the first digit of the national number, and the
\* rest of it written plainly, with separators, or one digit short
LinkPrefixes == { <<>>, <<"+", "9", "1">>, <<"9", "1">>, <<"0", "9", "1">>,
                  <<"+", "1">>, <<"+", "4", "4", " ">> }
LinkLeads == {"5", "6", "9"}
LinkRests == { <<"8", "7", "6", "5", "4", "3", "2", "1", "0">>,
               <<"8", "7", "6", "5", " ", "4", "3", "2", "-", "1", "0">>,
               <<"8", "7", "6", "5", "4", "3", "2", "1">> }
LinkPhones ==
    { p \o <<l>> \o r : p \in LinkPrefixes, l \in LinkLeads, r \in LinkRests }

\* messages: plain, with characters that must be escaped, and empty
LinkMessages ==
    { <<"h", "i">>, <<"h", "i", " ", "a", "&", "b">>, <<"a", "?", "=", "1">>,
      <<"5", "0", "%", "!">>, <<>> }

InitLink ==
    /\ lPc = "input"
    /\ lPhone \in LinkPhones
    /\ lMessage \in LinkMessages
    /\ lUrl = <<>>
    /\ cPc = "idle"
    /\ cReminder = Reminder(1, "daily", [hour |-> 9, minute |-> 0],
                            NoWeekDays, 0, NoDate, TRUE, NoDate)
    /\ cCheck = NoDate
    /\ cNow = [day |-> MakeDay(2024, 0, 15), ms |-> 0]
    /\ cThen = NoDate
    /\ cNext = NoDate
    /\ cFired = FALSE
    /\ cCache = <<>>
    /\ cBatch = {}
    /\ cSecond = NoDate
    /\ SchedRest
    /\ FxRest
    /\ HistRest

\* openWhatsApp(reminder) builds the URL from reminder.phoneNumber and
\* reminder.message
LinkCall ==
    /\ lPc = "input"
    /\ lPc' = "done"
    /\ lUrl' = whatsappUrl(lPhone, lMessage)
    /\ UNCHANGED <<lPhone, lMessage>>
    /\ UNCHANGED calcVars
    /\ UNCHANGED obsVars
    /\ UNCHANGED pipeVars
    /\ UNCHANGED elemVars
    /\ UNCHANGED histVars
    /\ UNCHANGED schedVars
    /\ UNCHANGED fxVars
    /\ UNCHANGED userVars

NextLink == LinkCall

SpecLink == InitLink /\ [][NextLink]_vars

\* digits of the phone number with 91 prepended exactly when they are 10
\* long and start with 6, 7, 8 or 9
LinkDigits(phoneNumber) ==
    LET digits == cleaned(phoneNumber)
    IN  IF Len(digits) = 10 /\ digits[1] \in {"6", "7", "8", "9"}
        THEN <<"9", "1">> \o digits ELSE digits

\* C21: for every phone number and message the deep link opened is exactly
\* "https://wa.me/" + digits + "?text=" + the URL-encoded message, on the
\* regional and on the non-regional branch.
C21_DeepLinkFormat ==
    lPc = "done" =>
        lUrl = WaMe \o LinkDigits(lPhone) \o <<"?">> \o TextParam
                    \o encodeURIComponent(lMessage)

----------------------------------------------------------------------------
(* Properties of the calculator and of the due decision (SpecCalc).        *)

\* the instant k days from now's day at the reminder's time of day
AtTime(n, k, time) == [day |-> n.day + k, ms |-> TimeMs(time)]

CalcDone(freq) == cPc = "done" /\ cReminder.frequency = freq

\* C4: an active reminder with lastTriggered null is reported due exactly
\* when some scheduled instant lies within 30 seconds of now, before or
\* after it (daily reminders: the instants are every day at the time).
C4_DueWithinToleranceBothSides ==
    (CalcDone("daily") /\ cReminder.isActive
        /\ cReminder.lastTriggered = NoDate)
    => (cFired <=>
          \E k \in {-1, 0, 1} :
             LET diff == FloorDiffSecs(AtTime(cCheck, k, cReminder.time),
                                       cCheck)
             IN  diff >= 0 - DueToleranceSecs /\ diff <= DueToleranceSecs)

\* C5: for a daily reminder getNextOccurrence never returns none; it returns
\* today at the reminder's time if that is > now, else tomorrow at that
\* time, and the result is strictly later than now.
C5_DailyStrictlyLater ==
    CalcDone("daily") =>
        /\ cNext # NoDate
        /\ DateLt(cNow, cNext)
        /\ cNext = IF DateLt(cNow, AtTime(cNow, 0, cReminder.time))
                   THEN AtTime(cNow, 0, cReminder.time)
                   ELSE AtTime(cNow, 1, cReminder.time)

\* C5 witness: now is exactly today's instant and the result is tomorrow's
C5_Witness ==
    /\ CalcDone("daily")
    /\ cNow = AtTime(cNow, 0, cReminder.time)
    /\ cNext = AtTime(cNow, 1, cReminder.time)

\* the instants strictly after n, at the time of day, on a selected weekday,
\* within the coming week
WeeklyCandidates(weekDays, time, n) ==
    { c \in { AtTime(n, k, time) : k \in 0..7 } :
        /\ DateLt(n, c)
        /\ \E d \in weekDays : dayMap(d) = getDay(c) }

\* C6: the weekly result falls on a selected weekday and is the earliest
\* instant strictly after now, at the reminder's time, on a selected weekday.
C6_WeeklyEarliest ==
    (CalcDone("weekly") /\ cReminder.weekDays \notin { {}, NoWeekDays })
    => /\ cNext \in WeeklyCandidates(cReminder.weekDays, cReminder.time, cNow)
       /\ \A c \in WeeklyCandidates(cReminder.weekDays, cReminder.time, cNow) :
             DateLe(cNext, c)

\* this month's instant of a monthly reminder
ThisMonthAt(r, n) ==
    [day |-> n.day - DateFromDay(n.day) + r.monthDay, ms |-> TimeMs(r.time)]

\* monthDay exists in now's month and in the month after it
MonthDayExists(r, n) ==
    LET y == YearFromDay(n.day)
        m == MonthFromDay(n.day)
    IN  /\ r.monthDay >= 1
        /\ r.monthDay <= DaysInMonth(y, m)
        /\ r.monthDay <= DaysInMonth(IF m = 11 THEN y + 1 ELSE y, (m + 1) % 12)

\* C7: monthly, monthDay existing in this and the next month: once this
\* month's instant is <= now the result is the same monthDay, same time, in
\* the next calendar month (December rolls to January of the next year);
\* otherwise it is this month's instant.
C7_MonthlyRollover ==
    (CalcDone("monthly") /\ MonthDayExists(cReminder, cNow))
    => LET y == YearFromDay(cNow.day)
           m == MonthFromDay(cNow.day)
       IN  IF DateLe(ThisMonthAt(cReminder, cNow), cNow)
           THEN /\ cNext # NoDate
                /\ DateFromDay(cNext.day) = cReminder.monthDay
                /\ MonthFromDay(cNext.day) = (m + 1) % 12
                /\ YearFromDay(cNext.day) = (IF m = 11 THEN y + 1 ELSE y)
                /\ cNext.ms = TimeMs(cReminder.time)
           ELSE cNext = ThisMonthAt(cReminder, cNow)

\* C7 witness: a December instant has passed and the result is in January of
\* the following year
C7_Witness ==
    /\ CalcDone("monthly")
    /\ MonthDayExists(cReminder, cNow)
    /\ MonthFromDay(cNow.day) = 11
    /\ DateLe(ThisMonthAt(cReminder, cNow), cNow)
    /\ MonthFromDay(cNext.day) = 0
    /\ YearFromDay(cNext.day) = YearFromDay(cNow.day) + 1

\* the stored date (its local calendar day) at the reminder's time
OnceAt(r) == [day |-> parseISO(r.date).day, ms |-> TimeMs(r.time)]

\* C8: once: none when date is unset or now >= the stored date at the
\* reminder's time; exactly that date-time for every earlier now.
C8_OnceNoneWhenPassed ==
    CalcDone("once") =>
        cNext = IF cReminder.date = NoDate THEN NoDate
                ELSE IF DateLe(OnceAt(cReminder), cNow) THEN NoDate
                ELSE OnceAt(cReminder)

\* C8 witness: now is exactly the stored date-time and the result is none
C8_Witness ==
    /\ CalcDone("once")
    /\ cReminder.date # NoDate
    /\ cNow = OnceAt(cReminder)
    /\ cNext = NoDate

\* C10: a reminder with isActive = false never fires, whatever its recurrence
\* rule and the time of the call, and setReminders never caches it.
C10_InactiveNeverFires ==
    (cPc = "done" /\ ~cReminder.isActive)
    => /\ ~cFired
       /\ \A i \in 1..Len(cCache) :
             cCache[i].isActive /\ cCache[i].id # cReminder.id

\* C10 witness: an inactive daily reminder, never triggered, called 30 s
\* before its instant (an active one fires there), and setReminders has
\* cached only the active member of the list
C10_Witness ==
    /\ CalcDone("daily")
    /\ ~cReminder.isActive
    /\ cReminder.lastTriggered = NoDate
    /\ cNext # NoDate
    /\ FloorDiffSecs(cNext, cCheck) = DueToleranceSecs
    /\ checkFires([cReminder EXCEPT !.isActive = TRUE], cCheck, cNow, cThen)
    /\ Len(cCache) = 1

\* the reminder was last triggered within the 5 minutes up to n
TriggeredRecently(r, n) ==
    /\ r.lastTriggered # NoDate
    /\ DateLe(n, AddMs(parseISO(r.lastTriggered), CooldownMs))

\* C11: checkReminder fires only if lastTriggered is null or strictly older
\* than 5 minutes before now; a reminder triggered within the last 5 minutes
\* (2 minutes ago, exactly 5 minutes ago) does not fire, even inside its
\* due window.
C11_CooldownSuppresses ==
    (cPc = "done" /\ TriggeredRecently(cReminder, cCheck)) => ~cFired

\* a reminder inside its due window, last triggered exactly 5 minutes ago,
\* has been checked and did not fire
C11_Witness ==
    /\ cPc = "done"
    /\ cReminder.isActive
    /\ cNext # NoDate
    /\ isDue(cNext, cCheck)
    /\ cReminder.lastTriggered = toISOString(AddMs(cCheck, 0 - CooldownMs))
    /\ ~cFired

\* the recurrence configuration of r lacks what its frequency needs
Incomplete(r) ==
    \/ r.frequency = "weekly" /\ r.weekDays \in { {}, NoWeekDays }
    \/ r.frequency = "monthly" /\ r.monthDay = 0
    \/ r.frequency = "once" /\ r.date = NoDate

\* checkReminder's diffMs for a daily reminder at time, with t the value
\* of its own new Date() and n, m those of getNextOccurrence:
\* nextOccurrence.getTime() - now.getTime()
MsUntil(time, t, n, m) ==
    LET nextOccurrence ==
            dailyOccurrence(setHours(m, time.hour, time.minute), n)
    IN  (nextOccurrence.day - t.day) * MsPerDay + nextOccurrence.ms - t.ms

\* C19: a reminder with an incomplete recurrence configuration (weekly
\* without weekDays, monthly without monthDay, once without date) gets none
\* from getNextOccurrence for every now and never fires, while the other
\* cached reminders are still checked in the same pass.
C19_IncompleteNeverFires ==
    (cPc = "done" /\ Incomplete(cReminder)) =>
        /\ cNext = NoDate
        /\ ~cFired
        /\ 1 \notin cBatch
        /\ (2 \in cBatch <=>
               MsUntil(cReminder.time, cCheck, cNow, cThen) \in 1..30999)

\* an active monthly reminder without monthDay was checked and skipped in a
\* pass in which the complete reminder beside it fired
C19_Witness ==
    /\ cPc = "done"
    /\ cReminder.frequency = "monthly"
    /\ cReminder.monthDay = 0
    /\ cReminder.isActive
    /\ cNext = NoDate
    /\ cBatch = {2}

----------------------------------------------------------------------------
(* The scheduler session: NotificationService with the store, the query    *)
(* cache, the page and the clock around it.  Handlers run one at a time    *)
(* (event loop); time passes between handlers, observed at the instants    *)
(* at which a timer callback can run.                                      *)

\* the scheduled instant the scenarios are built around: Monday 2024-01-15
SchedDay == MakeDay(2024, 0, 15)
SchedTime == [hour |-> 9, minute |-> 0]
SchedAt == [day |-> SchedDay, ms |-> TimeMs(SchedTime)]

\* length of the observed stretch of time: of a session of the store
\* pipeline, and of a session with sound or with user writes
HorizonMs == 45000
ShortHorizonMs == 30000
\* calls of initialize during the observed stretch
MaxInits == 1

\* the clock when observation starts: 45 s before the instant, and 999 ms
\* earlier (handlers then run 30.999, 15.999 and 0.999 s before it)
LateStart == AddMs(SchedAt, 0 - 45000)
StartTimes == { LateStart, AddMs(LateStart, 0 - 999) }

\* the clock when observation of a session with sound or with user writes
\* starts: 30 s before the instant (a handler 15 s later runs inside the
\* due window, one 30 s later at the instant, outside it)
WindowOpen == AddMs(SchedAt, 0 - 30000)

RowDaily(id, active, lt) ==
    Reminder(id, "daily", SchedTime, NoWeekDays, 0, NoDate, active, lt)
RowOnce(id) ==
    Reminder(id, "once", SchedTime, NoWeekDays, 0,
             toISOString([day |-> SchedDay, ms |-> 0]), TRUE, NoDate)
RowWeeklyNoDays(id) ==
    Reminder(id, "weekly", SchedTime, {}, 0, NoDate, TRUE, NoDate)

\* the stored tables observation starts from: a daily and a one-time
\* reminder due at the instant, an inactive one beside an active one, an
\* incomplete one beside a complete one, and reminders last triggered 2.5
\* and 5.5 minutes before the instant
InitTables ==
    { << RowDaily(1, TRUE, NoDate) >>,
      << RowOnce(1) >>,
      << RowDaily(1, FALSE, NoDate), RowDaily(2, TRUE, NoDate) >>,
      << RowWeeklyNoDays(1), RowDaily(2, TRUE, NoDate) >>,
      << RowDaily(1, TRUE, toISOString(AddMs(SchedAt, 0 - 150000))) >>,
      << RowDaily(1, TRUE, toISOString(AddMs(SchedAt, 0 - 330000))) >> }

\* the largest number of new Date() of one handler before which the clock
\* may move on, and the handlers of a session during which it does
LastRead == 9
MaxJumps == 1

\* the provider is rendered and its first fetch is pending, the service is
\* constructed, the page's effects have not run yet: the state shared by
\* every session observed
SessionStart ==
    /\ cPc = "idle"
    /\ cReminder = RowDaily(1, TRUE, NoDate)
    /\ cCheck = NoDate
    /\ cNow = SchedAt
    /\ cThen = NoDate
    /\ cNext = NoDate
    /\ cFired = FALSE
    /\ cCache = <<>>
    /\ cBatch = {}
    /\ cSecond = NoDate
    /\ queryData = <<>>
    /\ stale = TRUE
    /\ inflight = <<>>
    /\ reminders = <<>>
    /\ checkInterval = 0
    /\ liveTimers = {}
    /\ nextTick = <<>>
    /\ nextHandle = 1
    /\ pollNext = NoDate
    /\ fired = <<>>
    /\ failed = {}
    /\ isLoading = TRUE
    /\ fetching = <<>>
    /\ changes = 0
    /\ wired = FALSE
    /\ strays = 0
    /\ rejections = 0
    /\ loading = 0
    /\ autoTriggerEnabled = TRUE
    /\ onReminderDue = 0
    /\ audio = "none"
    /\ volume = 0
    /\ orphans = 0
    /\ fades = 0
    /\ isSoundPlaying = FALSE
    /\ mediaEvents = <<>>
    /\ outcome = <<>>
    /\ lifecycle = <<>>
    /\ userLast = {}
    /\ LinkRest
    /\ HistRest

\* sessions of the store pipeline: either page, every table, in a desktop
\* browser with notifications denied and with sound and auto-open switched
\* off in the stored settings; the settings are not touched
Init ==
    /\ jumpsLeft = 0
    /\ variant \in {"index", "poller", "poller10"}
    /\ now \in StartTimes
    /\ sessionEnd = AddMs(now, HorizonMs)
    /\ db \in InitTables
    /\ settings = Settings(FALSE, FALSE)
    /\ env = Browser(FALSE, "denied", "ok")
    /\ initsLeft = MaxInits
    /\ opsLeft = 0
    /\ savesLeft = 0
    /\ SessionStart

\* ---- checkReminder ------------------------------------------------------

\* the auto-open setting the stored settings hold (enabled by default)
StoredAutoOpen(stored) == IF stored.kind = "ok" THEN stored.autoOpen ELSE TRUE

\* the clock during a handler that starts at now: jump is the number of the
\* first new Date() of the handler that returns the next millisecond (0: the
\* clock does not move on during the handler), reads is the number of
\* new Date() evaluated so far
Clock(jump) == [jump |-> jump, reads |-> 0]

\* the value of the k-th new Date() from here (k = 0: of the clock as it is)
ReadAt(clock, k) ==
    IF clock.jump # 0 /\ clock.reads + k >= clock.jump
    THEN AddMs(now, 1)
    ELSE now

\* the clock after k more new Date()
Read(clock, k) == [clock EXCEPT !.reads = @ + k]

\* the numbers jump may take in a handler: the first new Date() of a
\* handler returns now
Jumps == IF jumpsLeft > 0 THEN {0} \cup (2..LastRead) ELSE {0}

\* what the service carries through a pass of checkReminder calls
Pass(snd, log, requests, promises, clock) ==
    [snd |-> snd, fired |-> log, inflight |-> requests, outcome |-> promises,
     clock |-> clock]

\* the fields of a reminder object that has every property
AllFields == {"id", "frequency", "time", "weekDays", "monthDay", "date",
              "isActive", "lastTriggered"}

\* checkReminder(reminder), up to its await: nothing for an inactive
\* reminder; else const now = new Date(), getNextOccurrence (two more
\* new Date()) and the due decision; when the firing branch is reached,
\* triggerNotification (playSound, the Notification, openWhatsApp under
\* autoTriggerEnabled), callbacks.onReminderDue, and the request
\* updateReminderInDb({...reminder, lastTriggered: new Date().toISOString()});
\* an exception of the Notification constructor ends the call there
checkReminder(acc, reminder, via, session) ==
    IF ~activeGuard(reminder) THEN acc
    ELSE IF ~checkFires(reminder, ReadAt(acc.clock, 1), ReadAt(acc.clock, 2),
                        ReadAt(acc.clock, 3))
    THEN [acc EXCEPT !.clock = Read(@, 3)]
    ELSE LET rung == playSound(acc.snd, settings, env)
             threw == env.notify = "throws"
             opens == ~threw /\ autoTriggerEnabled
             snd == IF opens THEN openWhatsApp(rung, env) ELSE rung
             effects ==
                 (IF rung.audio = "playing" THEN {"sound"} ELSE {})
                 \cup (IF env.notify = "granted" THEN {"notification"} ELSE {})
                 \cup (IF opens THEN {"open"} ELSE {})
                 \cup (IF threw THEN {} ELSE {"callback", "write"})
             stamp == IF threw THEN NoDate
                      ELSE toISOString(ReadAt(acc.clock, 4))
             entry == [arg |-> reminder,
                       instant |-> getNextOccurrence(reminder,
                                                     ReadAt(acc.clock, 2),
                                                     ReadAt(acc.clock, 3)),
                       at |-> ReadAt(acc.clock, 1),
                       stamp |-> stamp,
                       via |-> via, session |-> session,
                       effects |-> effects,
                       cb |-> onReminderDue',
                       autoTrigger |-> autoTriggerEnabled,
                       storedAutoOpen |-> StoredAutoOpen(settings)]
             request == [row |-> [reminder EXCEPT !.lastTriggered = stamp],
                         src |-> "svc", fire |-> Len(acc.fired) + 1,
                         applied |-> FALSE, cols |-> AllFields]
         IN  Pass(snd, Append(acc.fired, entry),
                  IF threw THEN acc.inflight ELSE Append(acc.inflight, request),
                  Append(acc.outcome, IF threw THEN "rejected" ELSE "pending"),
                  Read(acc.clock, IF threw THEN 3 ELSE 4))

\* rs.forEach(reminder => checkReminder(reminder))
RECURSIVE forEachCheck(_, _, _, _)
forEachCheck(acc, rs, via, session) ==
    IF rs = <<>> THEN acc
    ELSE forEachCheck(checkReminder(acc, Head(rs), via, session),
                      Tail(rs), via, session)

\* checkReminders: const isDue = this.checkReminder(reminder) is a Promise,
\* which is truthy whatever it resolves to, so hasDueReminders is set as soon
\* as the cache holds a reminder
hasDueReminders(rs) == Len(rs) > 0

\* checkReminders(): const now = new Date() (logged), the pass over the
\* cache, then stopSound(true) if no reminder was due and the audio is
\* playing
checkReminders(acc, rs, via, session) ==
    LET logged == [acc EXCEPT !.clock = Read(@, 1)]
    IN  IF Len(rs) > 0
        THEN LET after == forEachCheck(logged, rs, via, session)
             IN  IF ~hasDueReminders(rs) /\ after.snd.audio = "playing"
                 THEN [after EXCEPT !.snd = stopSound(after.snd, TRUE)]
                 ELSE after
        ELSE logged

\* the sound fields of the service and the elements around it
SoundNow ==
    Sound(audio, volume, fades, mediaEvents, isSoundPlaying, wired, strays,
          rejections)

\* the service's state before a pass during which the clock moves as jump
\* tells
PassStart(jump) == Pass(SoundNow, fired, inflight, outcome, Clock(jump))

\* the log, the requests and the promises after a pass
PassLogged(after) ==
    /\ fired' = after.fired
    /\ inflight' = after.inflight
    /\ outcome' = after.outcome

\* the sound fields after a pass
SoundSet(snd) ==
    /\ audio' = snd.audio
    /\ volume' = snd.volume
    /\ fades' = snd.fades
    /\ mediaEvents' = snd.events
    /\ isSoundPlaying' = snd.flag
    /\ wired' = snd.wired
    /\ strays' = snd.strays
    /\ rejections' = snd.rejections

\* the clock after a handler: the value of its last new Date()
ClockSet(clock) ==
    /\ now' = ReadAt(clock, 0)
    /\ jumpsLeft' = jumpsLeft - (IF now' = now THEN 0 ELSE 1)

\* state change of a handler that calls checkReminder on every element of rs
\* (wrapped: through checkReminders)
RunChecks(rs, via, session, wrapped) ==
    \E jump \in Jumps :
        \E after \in { IF wrapped
                        THEN checkReminders(PassStart(jump), rs, via, session)
                        ELSE forEachCheck(PassStart(jump), rs, via, session) } :
            PassLogged(after) /\ SoundSet(after.snd) /\ ClockSet(after.clock)

\* ---- NotificationService ------------------------------------------------

\* ReminderContext: activeReminders = reminders.filter(r => r.isActive)
activeReminders == SelectSeq(queryData, LAMBDA r : r.isActive)

\* the last two lifecycle calls after one more
Lifecycle(call) ==
    IF lifecycle = <<>> THEN << call >> ELSE << lifecycle[Len(lifecycle)], call >>

\* the last lifecycle call was initialize: the page is mounted
Mounted == lifecycle # <<>> /\ lifecycle[Len(lifecycle)] = "initialize"

\* the period of the page's own interval: 10 s on one poller page, 15 s on
\* the other
PollMs ==
    IF variant = "poller10" THEN 10 * MsPerSecond ELSE 15 * MsPerSecond

\* the time at which the page's own interval is due next, after a step
\* that has (rendered) or has not made the provider render at the time at:
\* the effect that sets the interval depends on activeReminders, a new
\* array at every render, so its teardown clears the interval and the
\* effect sets a new one
RenderedAt(rendered, at) ==
    IF rendered /\ variant # "index" /\ Mounted
    THEN AddMs(at, PollMs)
    ELSE pollNext

\* the same after a step during which the clock has not moved
Rendered(rendered) == RenderedAt(rendered, now)

\* window.clearInterval(this.checkInterval)
clearIntervalMutNone(timers, handle) == timers
clearInterval(timers, handle) == timers \ {handle}

\* watched after the cache has become cache: the ids it holds, each since
\* the time recorded for it or, if it is new, since now
Watch(cache) ==
    [i \in { cache[k].id : k \in 1..Len(cache) } |->
        IF i \in DOMAIN watched THEN watched[i] ELSE now]

\* setReminders that also restarts the timers
SetRemindersMutRestart ==
    /\ variant = "index"
    /\ Mounted
    /\ reminders' = setReminders(activeReminders)
    /\ watched' = Watch(reminders')
    /\ nextTick' = [h \in liveTimers |-> AddMs(now, TickMs)]
    /\ UNCHANGED <<variant, now, db, queryData, stale, inflight, checkInterval,
                   liveTimers, nextHandle, pollNext, fired, failed>>
    /\ UNCHANGED fxVars
    /\ UNCHANGED calcVars
    /\ UNCHANGED obsVars
    /\ UNCHANGED pipeVars
    /\ UNCHANGED elemVars
    /\ UNCHANGED linkVars
    /\ UNCHANGED clicked
    /\ UNCHANGED userVars

\* pages/Index effect: notificationService.setReminders(activeReminders);
\* the effect runs after the one that calls initialize, and again whenever
\* activeReminders changes while the page is mounted
SetReminders ==
    /\ variant = "index"
    /\ Mounted
    /\ reminders' = setReminders(activeReminders)
    /\ watched' = Watch(reminders')
    /\ UNCHANGED <<variant, now, db, queryData, stale, inflight, checkInterval,
                   liveTimers, nextTick, nextHandle, pollNext, fired, failed>>
    /\ UNCHANGED fxVars
    /\ UNCHANGED calcVars
    /\ UNCHANGED obsVars
    /\ UNCHANGED pipeVars
    /\ UNCHANGED elemVars
    /\ UNCHANGED linkVars
    /\ UNCHANGED clicked
    /\ UNCHANGED userVars

\* initialize(onReminderDue): register the callback, clear the old interval,
\* set a new one, check once, make a new ringtone element (the old element
\* is dropped as it is: a ringtone goes on looping, a one-shot element plays
\* to its end; where the ringtone file cannot be loaded the new element
\* will report an error), load the settings; a poller page that mounts sets
\* its own interval in the effect after the one that calls initialize
Initialize ==
    /\ initsLeft > 0
    /\ initsLeft' = initsLeft - 1
    /\ onReminderDue' = nextHandle
    /\ liveTimers' = clearInterval(liveTimers, checkInterval) \cup {nextHandle}
    /\ checkInterval' = nextHandle
    /\ nextHandle' = nextHandle + 1
    /\ nextTick' = [h \in liveTimers' |->
                      IF h = nextHandle THEN AddMs(now, TickMs) ELSE nextTick[h]]
    /\ \E jump \in Jumps :
         \E after \in { checkReminders(PassStart(jump), reminders, "init",
                                       nextHandle) } :
           /\ PassLogged(after)
           /\ ClockSet(after.clock)
           /\ orphans' = orphans + (IF after.snd.audio = "playing"
                                        /\ after.snd.wired THEN 1 ELSE 0)
           /\ SoundSet([after.snd EXCEPT
                           !.audio = "paused", !.volume = FullVolume,
                           !.wired = TRUE,
                           !.strays = @ + (IF after.snd.audio = "playing"
                                              /\ ~after.snd.wired
                                           THEN 1 ELSE 0)])
    /\ loading' = loading + (IF env.play = "fallback" THEN 1 ELSE 0)
    /\ autoTriggerEnabled' = IF settings.kind = "ok" THEN settings.autoOpen
                             ELSE autoTriggerEnabled
    /\ lifecycle' = Lifecycle("initialize")
    /\ pollNext' = IF variant # "index"
                       /\ (~Mounted \/ (Len(fired') > Len(fired)
                                         /\ env.notify # "throws"))
                    THEN AddMs(now', PollMs)
                    ELSE pollNext
    /\ UNCHANGED <<variant, db, queryData, stale, reminders,
                   failed, settings, env, savesLeft>>
    /\ UNCHANGED calcVars
    /\ UNCHANGED sessionEnd
    /\ UNCHANGED pipeVars
    /\ UNCHANGED linkVars
    /\ UNCHANGED histVars
    /\ UNCHANGED userVars

\* the interval callback of timer h: checkReminders()
Tick(h) ==
    /\ h \in liveTimers
    /\ DateLe(nextTick[h], now)
    /\ nextTick' = [nextTick EXCEPT ![h] = AddMs(@, TickMs)]
    /\ onReminderDue' = onReminderDue
    /\ RunChecks(reminders, "tick", h, TRUE)
    /\ pollNext' = RenderedAt(Len(fired') > Len(fired)
                                 /\ env.notify # "throws", now')
    /\ UNCHANGED <<variant, db, queryData, stale, reminders,
                   checkInterval, liveTimers, nextHandle, failed>>
    /\ UNCHANGED <<settings, env, autoTriggerEnabled, orphans, lifecycle,
                   initsLeft, savesLeft>>
    /\ UNCHANGED loading
    /\ UNCHANGED calcVars
    /\ UNCHANGED sessionEnd
    /\ UNCHANGED pipeVars
    /\ UNCHANGED linkVars
    /\ UNCHANGED histVars
    /\ UNCHANGED userVars

\* the page's own interval callback:
\* activeReminders.forEach(reminder => notificationService.checkReminder(reminder));
\* the toast of a due reminder makes the provider render, and the page's
\* effect sets a new interval
Poll ==
    /\ variant # "index"
    /\ pollNext # NoDate
    /\ DateLe(pollNext, now)
    /\ onReminderDue' = onReminderDue
    /\ RunChecks(activeReminders, "direct", checkInterval, FALSE)
    /\ pollNext' = IF Len(fired') > Len(fired) /\ env.notify # "throws"
                    THEN AddMs(now', PollMs)
                    ELSE AddMs(pollNext, PollMs)
    /\ UNCHANGED <<variant, db, queryData, stale, reminders,
                   checkInterval, liveTimers, nextTick, nextHandle, failed>>
    /\ UNCHANGED <<settings, env, autoTriggerEnabled, orphans, lifecycle,
                   initsLeft, savesLeft>>
    /\ UNCHANGED loading
    /\ UNCHANGED calcVars
    /\ UNCHANGED sessionEnd
    /\ UNCHANGED pipeVars
    /\ UNCHANGED linkVars
    /\ UNCHANGED histVars
    /\ UNCHANGED userVars

\* cleanup(): clear the interval, stopSound(false), drop the audio element
\* and the cached list; the pages call it as the teardown of the effect
\* that called initialize, when the page is unmounted, and the teardown of
\* a poller page's other effect clears the page's own interval
Cleanup ==
    /\ Mounted
    /\ liveTimers' = clearInterval(liveTimers, checkInterval)
    /\ nextTick' = [h \in liveTimers' |-> nextTick[h]]
    /\ checkInterval' = 0
    /\ SoundSet([stopSound(SoundNow, FALSE) EXCEPT
                    !.audio = "none", !.volume = 0, !.wired = FALSE])
    /\ UNCHANGED loading
    /\ reminders' = <<>>
    /\ lifecycle' = Lifecycle("cleanup")
    /\ pollNext' = NoDate
    /\ UNCHANGED <<variant, now, db, queryData, stale, inflight, nextHandle,
                   fired, failed>>
    /\ watched' = <<>>
    /\ UNCHANGED <<settings, env, autoTriggerEnabled, onReminderDue, orphans,
                   outcome, initsLeft, savesLeft>>
    /\ UNCHANGED calcVars
    /\ UNCHANGED obsVars
    /\ UNCHANGED pipeVars
    /\ UNCHANGED linkVars
    /\ UNCHANGED clicked
    /\ UNCHANGED userVars

\* silenceReminder(): stopSound(false)
Silence ==
    /\ SoundSet(stopSound(SoundNow, FALSE))
    /\ UNCHANGED loading
    /\ UNCHANGED schedVars
    /\ UNCHANGED <<settings, env, autoTriggerEnabled, onReminderDue, orphans,
                   outcome, lifecycle, initsLeft, savesLeft>>
    /\ UNCHANGED calcVars
    /\ UNCHANGED obsVars
    /\ UNCHANGED pipeVars
    /\ UNCHANGED linkVars
    /\ UNCHANGED histVars
    /\ UNCHANGED userVars

\* one callback of a fade-out interval: lower the volume by 0.1 while it is
\* above 0.1, else clear the interval and, if there is an audio, pause it
FadeStep ==
    /\ fades > 0
    /\ IF audio # "none" /\ volume >= 1
       THEN /\ volume' = volume - 1
            /\ UNCHANGED <<audio, fades, isSoundPlaying, mediaEvents>>
       ELSE /\ fades' = fades - 1
            /\ IF audio = "none"
               THEN UNCHANGED <<audio, volume, isSoundPlaying, mediaEvents>>
               ELSE /\ audio' = "paused"
                    /\ volume' = RingVolume
                    /\ isSoundPlaying' = FALSE
                    /\ mediaEvents' = IF audio = "playing" /\ wired
                                      THEN Append(mediaEvents, "pause")
                                      ELSE mediaEvents
    /\ UNCHANGED schedVars
    /\ UNCHANGED <<settings, env, autoTriggerEnabled, onReminderDue, orphans,
                   outcome, lifecycle, initsLeft, savesLeft>>
    /\ UNCHANGED calcVars
    /\ UNCHANGED obsVars
    /\ UNCHANGED pipeVars
    /\ UNCHANGED elemVars
    /\ UNCHANGED linkVars
    /\ UNCHANGED histVars
    /\ UNCHANGED userVars

\* the audio element's onplay / onpause handler runs for the oldest queued
\* event
MediaEvent ==
    /\ mediaEvents # <<>>
    /\ isSoundPlaying' = (Head(mediaEvents) = "play")
    /\ mediaEvents' = Tail(mediaEvents)
    /\ UNCHANGED schedVars
    /\ UNCHANGED <<settings, env, autoTriggerEnabled, onReminderDue, audio,
                   volume, orphans, fades, outcome, lifecycle, initsLeft,
                   savesLeft>>
    /\ UNCHANGED calcVars
    /\ UNCHANGED obsVars
    /\ UNCHANGED pipeVars
    /\ UNCHANGED elemVars
    /\ UNCHANGED linkVars
    /\ UNCHANGED histVars
    /\ UNCHANGED userVars

\* audio.onerror of a ringtone element made by initializeAudio, whose file
\* cannot be loaded: this.audio = new Audio('/notification.mp3'), an element
\* without loop and without handlers, at volume 1; the handler runs whether
\* or not the service still holds the element that reports the error (or
\* any element), and the element the service held is dropped as it is
AudioError ==
    /\ loading > 0
    /\ loading' = loading - 1
    /\ audio' = "paused"
    /\ volume' = FullVolume
    /\ wired' = FALSE
    /\ orphans' = orphans + (IF audio = "playing" /\ wired THEN 1 ELSE 0)
    /\ strays' = strays + (IF audio = "playing" /\ ~wired THEN 1 ELSE 0)
    /\ UNCHANGED schedVars
    /\ UNCHANGED <<settings, env, autoTriggerEnabled, onReminderDue,
                   fades, isSoundPlaying, mediaEvents, outcome, lifecycle,
                   initsLeft, savesLeft>>
    /\ UNCHANGED calcVars
    /\ UNCHANGED obsVars
    /\ UNCHANGED pipeVars
    /\ UNCHANGED rejections
    /\ UNCHANGED linkVars
    /\ UNCHANGED histVars
    /\ UNCHANGED userVars

\* the /notification.mp3 element the service holds has played to its end:
\* it is paused again, and no handler is registered on it
AudioEnded ==
    /\ audio = "playing"
    /\ ~wired
    /\ audio' = "paused"
    /\ UNCHANGED schedVars
    /\ UNCHANGED <<settings, env, autoTriggerEnabled, onReminderDue, volume,
                   orphans, fades, isSoundPlaying, mediaEvents, outcome,
                   lifecycle, initsLeft, savesLeft>>
    /\ UNCHANGED calcVars
    /\ UNCHANGED obsVars
    /\ UNCHANGED pipeVars
    /\ UNCHANGED elemVars
    /\ UNCHANGED linkVars
    /\ UNCHANGED histVars
    /\ UNCHANGED userVars

\* the rejection handler of a play() of playSound runs:
\* new Audio('/notification.mp3').play(), which plays where only the
\* ringtone file cannot be loaded and is rejected (and logged) where every
\* play() is rejected
PlayRejected ==
    /\ rejections > 0
    /\ rejections' = rejections - 1
    /\ strays' = strays + (IF env.play = "fallback" THEN 1 ELSE 0)
    /\ UNCHANGED schedVars
    /\ UNCHANGED fxVars
    /\ UNCHANGED calcVars
    /\ UNCHANGED obsVars
    /\ UNCHANGED pipeVars
    /\ UNCHANGED <<wired, loading>>
    /\ UNCHANGED linkVars
    /\ UNCHANGED histVars
    /\ UNCHANGED userVars

\* a /notification.mp3 element the service does not refer to has played to
\* its end
FallbackEnded ==
    /\ strays > 0
    /\ strays' = strays - 1
    /\ UNCHANGED schedVars
    /\ UNCHANGED fxVars
    /\ UNCHANGED calcVars
    /\ UNCHANGED obsVars
    /\ UNCHANGED pipeVars
    /\ UNCHANGED <<wired, rejections, loading>>
    /\ UNCHANGED linkVars
    /\ UNCHANGED histVars
    /\ UNCHANGED userVars

\* setAutoTrigger(enabled)
SetAutoTrigger(enabled) ==
    /\ savesLeft > 0
    /\ savesLeft' = savesLeft - 1
    /\ enabled # autoTriggerEnabled
    /\ autoTriggerEnabled' = enabled
    /\ UNCHANGED schedVars
    /\ UNCHANGED <<settings, env, onReminderDue, audio, volume, orphans,
                   fades, isSoundPlaying, mediaEvents, outcome, lifecycle,
                   initsLeft>>
    /\ UNCHANGED calcVars
    /\ UNCHANGED obsVars
    /\ UNCHANGED pipeVars
    /\ UNCHANGED elemVars
    /\ UNCHANGED linkVars
    /\ UNCHANGED histVars
    /\ UNCHANGED userVars

\* notification.onclick of a notification a firing has shown:
\* openWhatsApp(reminder), stopSound(true), notification.close()
NotificationClick ==
    /\ clicked < Cardinality({ i \in 1..Len(fired) :
                                 "notification" \in fired[i].effects })
    /\ clicked' = clicked + 1
    /\ SoundSet(stopSound(openWhatsApp(SoundNow, env), TRUE))
    /\ UNCHANGED loading
    /\ UNCHANGED schedVars
    /\ UNCHANGED <<settings, env, autoTriggerEnabled, onReminderDue, orphans,
                   outcome, lifecycle, initsLeft, savesLeft>>
    /\ UNCHANGED calcVars
    /\ UNCHANGED obsVars
    /\ UNCHANGED pipeVars
    /\ UNCHANGED linkVars
    /\ UNCHANGED userVars
    /\ UNCHANGED watched

\* SettingsForm.saveSettings: localStorage.setItem('wazzup-settings', ...)
SaveSettings(stored) ==
    /\ savesLeft > 0
    /\ savesLeft' = savesLeft - 1
    /\ stored # settings
    /\ settings' = stored
    /\ UNCHANGED schedVars
    /\ UNCHANGED <<env, autoTriggerEnabled, onReminderDue, audio, volume,
                   orphans, fades, isSoundPlaying, mediaEvents, outcome,
                   lifecycle, initsLeft>>
    /\ UNCHANGED calcVars
    /\ UNCHANGED obsVars
    /\ UNCHANGED pipeVars
    /\ UNCHANGED elemVars
    /\ UNCHANGED linkVars
    /\ UNCHANGED histVars
    /\ UNCHANGED userVars

\* ---- store, change feed and query cache ----------------------------------

\* supabase .update(row).eq('id', row.id): the columns of the row with that
\* id that the object sent has (cols) take the object's values
UpdateRows(table, row, cols) ==
    [i \in 1..Len(table) |->
        IF table[i].id = row.id
        THEN [f \in DOMAIN table[i] |->
                 IF f \in cols THEN row[f] ELSE table[i][f]]
        ELSE table[i]]

\* supabase .delete().eq('id', id): the row with that id is removed
DeleteRows(table, id) == SelectSeq(table, LAMBDA r : r.id # id)

\* the id the store generates for the row of an insert: one that no other
\* row has had (the stored rows and those of the backups have ids 1 and 2)
NewId(request) == 2 + request.fire

\* the value the table gives a column that an inserted object does not
\* have: "weekDays" TEXT[] DEFAULT ARRAY[]::TEXT[], "isActive" BOOLEAN
\* DEFAULT TRUE, null for "monthDay", date and "lastTriggered"
ColumnDefault(f) ==
    CASE f = "weekDays" -> {}
      [] f = "isActive" -> TRUE
      [] f = "monthDay" -> 0
      [] OTHER -> NoDate

\* the object sent has the property f with a value (JSON.stringify leaves
\* out a property that is undefined)
Sent(request, f) ==
    /\ f \in request.cols
    /\ ~(f = "weekDays" /\ request.row.weekDays = NoWeekDays)

\* supabase .insert([row]).select().single(): the row is stored under the
\* id the store generates, with the column defaults for the properties the
\* object does not have
InsertRow(table, request) ==
    Append(table,
           [f \in DOMAIN request.row |->
               IF f = "id" THEN NewId(request)
               ELSE IF Sent(request, f) THEN request.row[f]
               ELSE ColumnDefault(f)])

\* the table after the store has applied a request
Applied(table, request) ==
    CASE request.src = "delete" -> DeleteRows(table, request.row.id)
      [] request.src = "add" -> InsertRow(table, request)
      [] OTHER -> UpdateRows(table, request.row, request.cols)

\* the request changes a row of the table: an insert, or an update or a
\* delete whose id a row has
Touches(table, request) ==
    \/ request.src = "add"
    \/ \E i \in 1..Len(table) : table[i].id = request.row.id

\* the number of toggle writes the store has applied to the row with that id
TogglesOf(id) ==
    IF \E u \in userLast : u.row.id = id
    THEN (CHOOSE u \in userLast : u.row.id = id).toggles
    ELSE 0

\* userLast after the store has applied a request: the row as stored by a
\* user's request that changes a row replaces what is recorded for that id
Recorded(table, request) ==
    IF request.src = "svc" \/ ~Touches(table, request)
    THEN userLast
    ELSE LET after == Applied(table, request)
             row == IF request.src = "add"
                    THEN after[Len(after)]
                    ELSE IF request.src = "delete"
                    THEN request.row
                    ELSE after[CHOOSE i \in 1..Len(after) :
                                   after[i].id = request.row.id]
         IN  { u \in userLast : u.row.id # row.id }
             \cup { [row |-> row, gone |-> request.src = "delete",
                     by |-> request.src,
                     toggles |-> TogglesOf(row.id)
                                 + (IF request.src = "user" THEN 1 ELSE 0)] }

DropAt(q, k) == [i \in 1..(Len(q) - 1) |-> IF i < k THEN q[i] ELSE q[i + 1]]

\* the checkReminder call that awaits request k resumes and returns true
Resumed(k) ==
    IF inflight[k].src = "svc"
    THEN [outcome EXCEPT ![inflight[k].fire] = "true"]
    ELSE outcome

\* the requests of the provider's mutations (update, delete, insert), whose
\* onSuccess invalidates the ['reminders'] query
Mutations == {"user", "edit", "delete", "add"}

\* the store applies the write of request k without a change message being
\* sent
StoreApplyMutNoNotify(k) ==
    /\ k \in 1..Len(inflight)
    /\ ~inflight[k].applied
    /\ db' = Applied(db, inflight[k])
    /\ userLast' = Recorded(db, inflight[k])
    /\ inflight' = [inflight EXCEPT ![k].applied = TRUE]
    /\ changes' = changes
    /\ UNCHANGED <<variant, now, queryData, stale, reminders, checkInterval,
                   liveTimers, nextTick, nextHandle, pollNext, fired, failed>>
    /\ UNCHANGED fxVars
    /\ UNCHANGED calcVars
    /\ UNCHANGED obsVars
    /\ UNCHANGED <<isLoading, fetching>>
    /\ UNCHANGED elemVars
    /\ UNCHANGED linkVars
    /\ UNCHANGED histVars
    /\ UNCHANGED opsLeft

\* the store applies the write of request k; for a row it changes, a
\* postgres_changes message is on its way to the provider's subscription
StoreApply(k) ==
    /\ k \in 1..Len(inflight)
    /\ ~inflight[k].applied
    /\ db' = Applied(db, inflight[k])
    /\ userLast' = Recorded(db, inflight[k])
    /\ inflight' = [inflight EXCEPT ![k].applied = TRUE]
    /\ changes' = changes + (IF Touches(db, inflight[k]) THEN 1 ELSE 0)
    /\ UNCHANGED <<variant, now, queryData, stale, reminders, checkInterval,
                   liveTimers, nextTick, nextHandle, pollNext, fired, failed>>
    /\ UNCHANGED fxVars
    /\ UNCHANGED calcVars
    /\ UNCHANGED obsVars
    /\ UNCHANGED <<isLoading, fetching>>
    /\ UNCHANGED elemVars
    /\ UNCHANGED linkVars
    /\ UNCHANGED histVars
    /\ UNCHANGED opsLeft

\* the other requests of the Promise.all that request k belongs to
Batch(k) ==
    { m \in 1..Len(inflight) :
        /\ m # k
        /\ inflight[m].src = "restore"
        /\ inflight[m].fire = inflight[k].fire }

\* the answer without error to request k arrives: the checkReminder call
\* that awaits it resumes; a mutation's onSuccess invalidates the
\* ['reminders'] query (a fetch under way is cancelled) and shows a toast;
\* the last answer of a restore shows a toast
WriteOk(k) ==
    /\ k \in 1..Len(inflight)
    /\ inflight[k].applied
    /\ inflight' = DropAt(inflight, k)
    /\ outcome' = Resumed(k)
    /\ stale' = (stale \/ inflight[k].src \in Mutations)
    /\ fetching' = IF inflight[k].src \in Mutations THEN <<>> ELSE fetching
    /\ pollNext' = Rendered(\/ inflight[k].src \in Mutations
                            \/ inflight[k].src = "restore" /\ Batch(k) = {})
    /\ UNCHANGED <<variant, now, db, queryData, reminders, checkInterval,
                   liveTimers, nextTick, nextHandle, fired, failed>>
    /\ UNCHANGED <<settings, env, autoTriggerEnabled, onReminderDue, audio,
                   volume, orphans, fades, isSoundPlaying, mediaEvents,
                   lifecycle, initsLeft, savesLeft>>
    /\ UNCHANGED calcVars
    /\ UNCHANGED obsVars
    /\ UNCHANGED <<isLoading, changes>>
    /\ UNCHANGED elemVars
    /\ UNCHANGED linkVars
    /\ UNCHANGED histVars
    /\ UNCHANGED userVars

\* the requests left when request k has been rejected: the Promise.all of
\* a restore is settled by its first rejection
Rejected(k) ==
    LET others == Batch(k)
    IN  DropAt([m \in 1..Len(inflight) |->
                   IF inflight[k].src = "restore" /\ m \in others
                   THEN [inflight[m] EXCEPT !.src = "settled"]
                   ELSE inflight[m]], k)

\* a rejected request that is sent again
WriteFailMutRetry(k) ==
    /\ k \in 1..Len(inflight)
    /\ failed' = IF inflight[k].src = "svc" THEN failed \cup {inflight[k].fire}
                 ELSE failed
    /\ inflight' = Append(Rejected(k), inflight[k])
    /\ outcome' = Resumed(k)
    /\ stale' = (stale \/ inflight[k].src = "restore")
    /\ fetching' = IF inflight[k].src = "restore" THEN <<>> ELSE fetching
    /\ pollNext' = Rendered(inflight[k].src \in Mutations \cup {"restore"})
    /\ UNCHANGED <<variant, now, db, queryData, reminders, checkInterval,
                   liveTimers, nextTick, nextHandle, fired>>
    /\ UNCHANGED <<settings, env, autoTriggerEnabled, onReminderDue, audio,
                   volume, orphans, fades, isSoundPlaying, mediaEvents,
                   lifecycle, initsLeft, savesLeft>>
    /\ UNCHANGED calcVars
    /\ UNCHANGED obsVars
    /\ UNCHANGED <<isLoading, changes>>
    /\ UNCHANGED elemVars
    /\ UNCHANGED linkVars
    /\ UNCHANGED histVars
    /\ UNCHANGED userVars

\* request k is rejected, before or after the store has applied it:
\* updateReminderInDb throws; checkReminder's catch logs the error, a
\* mutation's onError shows a toast, the catch of a restore shows a toast
\* and invalidates the ['reminders'] query
WriteFail(k) ==
    /\ k \in 1..Len(inflight)
    /\ failed' = IF inflight[k].src = "svc" THEN failed \cup {inflight[k].fire}
                 ELSE failed
    /\ inflight' = Rejected(k)
    /\ outcome' = Resumed(k)
    /\ stale' = (stale \/ inflight[k].src = "restore")
    /\ fetching' = IF inflight[k].src = "restore" THEN <<>> ELSE fetching
    /\ pollNext' = Rendered(inflight[k].src \in Mutations \cup {"restore"})
    /\ UNCHANGED <<variant, now, db, queryData, reminders, checkInterval,
                   liveTimers, nextTick, nextHandle, fired>>
    /\ UNCHANGED <<settings, env, autoTriggerEnabled, onReminderDue, audio,
                   volume, orphans, fades, isSoundPlaying, mediaEvents,
                   lifecycle, initsLeft, savesLeft>>
    /\ UNCHANGED calcVars
    /\ UNCHANGED obsVars
    /\ UNCHANGED <<isLoading, changes>>
    /\ UNCHANGED elemVars
    /\ UNCHANGED linkVars
    /\ UNCHANGED histVars
    /\ UNCHANGED userVars

\* a postgres_changes message reaches the subscription: its handler
\* invalidates the ['reminders'] query (a fetch under way is cancelled)
ChangeEvent ==
    /\ changes > 0
    /\ changes' = changes - 1
    /\ stale' = TRUE
    /\ fetching' = <<>>
    /\ UNCHANGED <<variant, now, db, queryData, inflight, reminders,
                   checkInterval, liveTimers, nextTick, nextHandle, pollNext,
                   fired, failed>>
    /\ UNCHANGED fxVars
    /\ UNCHANGED calcVars
    /\ UNCHANGED obsVars
    /\ UNCHANGED isLoading
    /\ UNCHANGED elemVars
    /\ UNCHANGED linkVars
    /\ UNCHANGED histVars
    /\ UNCHANGED userVars

\* a postgres_changes message never reaches the subscription (the socket is
\* down)
ChangeLost ==
    /\ changes > 0
    /\ changes' = changes - 1
    /\ UNCHANGED schedVars
    /\ UNCHANGED fxVars
    /\ UNCHANGED calcVars
    /\ UNCHANGED obsVars
    /\ UNCHANGED <<isLoading, fetching>>
    /\ UNCHANGED elemVars
    /\ UNCHANGED linkVars
    /\ UNCHANGED histVars
    /\ UNCHANGED userVars

\* a user's request with that object, which has the properties cols
UserRequest(row, src, cols) ==
    [row |-> row, src |-> src, fire |-> opsLeft, applied |-> FALSE,
     cols |-> cols]

\* state change of a call of one of the provider's mutations: the request
\* is sent and the provider renders with the mutation pending
Mutate(request) ==
    /\ opsLeft > 0
    /\ opsLeft' = opsLeft - 1
    /\ inflight' = Append(inflight, request)
    /\ pollNext' = Rendered(TRUE)
    /\ UNCHANGED <<variant, now, db, queryData, stale, reminders,
                   checkInterval, liveTimers, nextTick, nextHandle,
                   fired, failed>>
    /\ UNCHANGED fxVars
    /\ UNCHANGED calcVars
    /\ UNCHANGED obsVars
    /\ UNCHANGED pipeVars
    /\ UNCHANGED elemVars
    /\ UNCHANGED linkVars
    /\ UNCHANGED histVars
    /\ UNCHANGED userLast

\* toggleReminderActive(id): updateReminderInDb({...targetReminder,
\* isActive: !targetReminder.isActive}) with the row the page holds
UserToggle(i) ==
    /\ i \in 1..Len(queryData)
    /\ Mutate(UserRequest([queryData[i] EXCEPT !.isActive = ~@], "user",
                           AllFields))

\* deleteReminder(id): deleteReminderFromDb(id)
UserDelete(i) ==
    /\ i \in 1..Len(queryData)
    /\ Mutate(UserRequest(queryData[i], "delete", AllFields))

\* generateMinuteOptions(): the minute Select offers 0, 5, ..., 55
FormMinuteStep == 5
FormMinutes == { FormMinuteStep * i : i \in 0..((60 \div FormMinuteStep) - 1) }

\* the time the user sets in the form: the hour of the stored reminders and
\* the first minute the Select offers after theirs
FormTime ==
    [hour |-> SchedTime.hour,
     minute |-> CHOOSE x \in FormMinutes :
                    /\ x > SchedTime.minute
                    /\ \A y \in FormMinutes : y > SchedTime.minute => x <= y]

\* the week days the form starts with when the reminder has none
FormWeekDays == {"mon", "tue", "wed", "thu", "fri"}

\* validateForm() for the form opened on that row, as far as it concerns the
\* schedule: a weekly reminder needs a week day, a one-time reminder a date
FormValid(row) ==
    /\ ~(row.frequency = "weekly" /\ row.weekDays = {})
    /\ ~(row.frequency = "once" /\ row.date = NoDate)

\* reminderData of handleSubmit for the form opened on that row, after the
\* user has set the time: the form's state starts from the row
\* (initialData?.weekDays || [mon..fri], initialData?.monthDay || 1,
\* new Date(initialData.date)), and only the field of the row's frequency
\* is added to the object
FormRow(row) ==
    [row EXCEPT
        !.time = FormTime,
        !.weekDays = IF row.frequency # "weekly" THEN NoWeekDays
                     ELSE IF @ = NoWeekDays THEN FormWeekDays ELSE @,
        !.monthDay = IF row.frequency # "monthly" THEN 0
                     ELSE IF @ = 0 THEN 1 ELSE @,
        !.date = IF row.frequency # "once" THEN NoDate
                 ELSE toISOString(parseISO(@))]

\* the properties of that object
FormFields(row) ==
    {"id", "time", "frequency", "isActive", "lastTriggered"}
    \cup (CASE row.frequency = "weekly" -> {"weekDays"}
            [] row.frequency = "monthly" -> {"monthDay"}
            [] row.frequency = "once" -> {"date"}
            [] OTHER -> {})

\* updateReminder({...reminderData, id}), from the form that edits a
\* reminder of the list and passes validateForm: updateReminderInDb with
\* the time the user has set and the isActive and lastTriggered of the row
\* the page holds
UserEdit(i) ==
    /\ i \in 1..Len(queryData)
    /\ queryData[i].time # FormTime
    /\ FormValid(queryData[i])
    /\ Mutate(UserRequest(FormRow(queryData[i]), "edit",
                          FormFields(queryData[i])))

\* addReminder(reminderData), from the form for a new reminder:
\* addReminderToDb with an active daily reminder at the time the user has
\* set, never triggered; the object has no id and no weekDays, monthDay or
\* date
UserAdd ==
    Mutate(UserRequest(FormRow(RowDaily(0, TRUE, NoDate)), "add",
                       FormFields(RowDaily(0, TRUE, NoDate)) \ {"id"}))

\* a backup file: its reminders, and its settings (NoSettings: the file has
\* none)
Backup(rows, stored) == [reminders |-> rows, settings |-> stored]

\* the backup file the user restores: two reminders switched off, of which
\* the store holds only the first, and settings with sound switched off
Backups ==
    { Backup(<< RowDaily(1, FALSE, NoDate), RowDaily(2, FALSE, NoDate) >>,
             Settings(FALSE, TRUE)) }

\* restoreBackup(): the provider's setReminders(restoredData.reminders),
\* which is setQueryData(['reminders'], newReminders), then
\* updateReminderInDb for every one of them under one Promise.all; then
\* localStorage.setItem('wazzup-settings', ...) with the settings of the
\* file, if it has any
UserRestore(backup) ==
    /\ opsLeft > 0
    /\ opsLeft' = opsLeft - 1
    /\ queryData' = backup.reminders
    /\ isLoading' = FALSE
    /\ inflight' = inflight \o [i \in 1..Len(backup.reminders) |->
                                   UserRequest(backup.reminders[i], "restore",
                                               AllFields)]
    /\ settings' = IF backup.settings = NoSettings THEN settings
                   ELSE backup.settings
    /\ pollNext' = Rendered(TRUE)
    /\ UNCHANGED <<variant, now, db, stale, reminders, checkInterval,
                   liveTimers, nextTick, nextHandle, fired, failed>>
    /\ UNCHANGED <<env, autoTriggerEnabled, onReminderDue, audio, volume,
                   orphans, fades, isSoundPlaying, mediaEvents, outcome,
                   lifecycle, initsLeft, savesLeft>>
    /\ UNCHANGED calcVars
    /\ UNCHANGED obsVars
    /\ UNCHANGED <<fetching, changes>>
    /\ UNCHANGED elemVars
    /\ UNCHANGED linkVars
    /\ UNCHANGED histVars
    /\ UNCHANGED userLast

\* the ['reminders'] query, new or invalidated, is fetched: the store reads
\* the table for select('*')
Fetch ==
    /\ stale
    /\ fetching = <<>>
    /\ stale' = FALSE
    /\ fetching' = << db >>
    /\ UNCHANGED <<variant, now, db, queryData, inflight, reminders,
                   checkInterval, liveTimers, nextTick, nextHandle, pollNext,
                   fired, failed>>
    /\ UNCHANGED fxVars
    /\ UNCHANGED calcVars
    /\ UNCHANGED obsVars
    /\ UNCHANGED <<isLoading, changes>>
    /\ UNCHANGED elemVars
    /\ UNCHANGED linkVars
    /\ UNCHANGED histVars
    /\ UNCHANGED userVars

\* the select of the fetch fails: fetchReminders logs the error and will
\* return []
FetchError ==
    /\ stale
    /\ fetching = <<>>
    /\ stale' = FALSE
    /\ fetching' = << <<>> >>
    /\ UNCHANGED <<variant, now, db, queryData, inflight, reminders,
                   checkInterval, liveTimers, nextTick, nextHandle, pollNext,
                   fired, failed>>
    /\ UNCHANGED fxVars
    /\ UNCHANGED calcVars
    /\ UNCHANGED obsVars
    /\ UNCHANGED <<isLoading, changes>>
    /\ UNCHANGED elemVars
    /\ UNCHANGED linkVars
    /\ UNCHANGED histVars
    /\ UNCHANGED userVars

\* fetchReminders returns: the query data become what it returns; the
\* provider renders when the data or isLoading have changed
Refetch ==
    /\ fetching # <<>>
    /\ queryData' = fetching[1]
    /\ fetching' = <<>>
    /\ isLoading' = FALSE
    /\ pollNext' = Rendered(isLoading \/ queryData' # queryData)
    /\ UNCHANGED <<variant, now, db, stale, inflight, reminders, checkInterval,
                   liveTimers, nextTick, nextHandle, fired, failed>>
    /\ UNCHANGED fxVars
    /\ UNCHANGED calcVars
    /\ UNCHANGED obsVars
    /\ UNCHANGED changes
    /\ UNCHANGED elemVars
    /\ UNCHANGED linkVars
    /\ UNCHANGED histVars
    /\ UNCHANGED userVars

\* ---- the clock -----------------------------------------------------------

\* the times at which a timer callback is due next
DueTimes == { nextTick[h] : h \in liveTimers } \cup ({pollNext} \ {NoDate})

\* time passes until the next timer callback is due, at most one tick
\* period and not beyond the end of observation; the 100 ms fade-out
\* callbacks, the queued media events, the rejection handlers of play()
\* and the load errors of the ringtone elements have run by then
Advance ==
    /\ fades = 0
    /\ mediaEvents = <<>>
    /\ rejections = 0
    /\ loading = 0
    /\ \A d \in DueTimes : DateLt(now, d)
    /\ LET target == AddMs(now, TickMs)
           stop == IF \E d \in DueTimes : DateLt(d, target)
                   THEN CHOOSE d \in DueTimes : \A e \in DueTimes : DateLe(d, e)
                   ELSE target
       IN  /\ DateLe(stop, sessionEnd)
           /\ now' = stop
    /\ UNCHANGED <<variant, db, queryData, stale, inflight, reminders,
                   checkInterval, liveTimers, nextTick, nextHandle, pollNext,
                   fired, failed>>
    /\ UNCHANGED fxVars
    /\ UNCHANGED calcVars
    /\ UNCHANGED obsVars
    /\ UNCHANGED pipeVars
    /\ UNCHANGED elemVars
    /\ UNCHANGED linkVars
    /\ UNCHANGED histVars
    /\ UNCHANGED userVars

Next ==
    \/ SetReminders
    \/ Initialize
    \/ \E h \in liveTimers : Tick(h)
    \/ Poll
    \/ Cleanup
    \/ \E k \in 1..Len(inflight) : StoreApply(k)
    \/ \E k \in 1..Len(inflight) : WriteOk(k)
    \/ \E k \in 1..Len(inflight) : WriteFail(k)
    \/ ChangeEvent
    \/ ChangeLost
    \/ Fetch
    \/ FetchError
    \/ Refetch
    \/ Advance

Spec == Init /\ [][Next]_vars

\* ---- sessions during which the clock moves on within a handler ----------

\* the clock when observation of such a session starts: a millisecond
\* before LateStart, so that a tick runs in the last millisecond before the
\* instant
SkewStart == AddMs(LateStart, 0 - 1)

\* the stored tables of such a session: a daily and a one-time reminder due
\* at the instant, and a daily reminder last triggered 5.5 minutes before it
SkewTables ==
    { << RowDaily(1, TRUE, NoDate) >>,
      << RowOnce(1) >>,
      << RowDaily(1, TRUE, toISOString(AddMs(SchedAt, 0 - 330000))) >> }

\* sessions of pages/Index observed up to the instant; during one handler
\* of the session the clock moves into the next millisecond between two
\* new Date()
InitSkew ==
    /\ jumpsLeft = MaxJumps
    /\ variant = "index"
    /\ now = SkewStart
    /\ sessionEnd = SchedAt
    /\ db \in SkewTables
    /\ settings = Settings(FALSE, FALSE)
    /\ env = Browser(FALSE, "denied", "ok")
    /\ initsLeft = MaxInits
    /\ opsLeft = 0
    /\ savesLeft = 0
    /\ SessionStart

NextSkew ==
    \/ SetReminders
    \/ Initialize
    \/ \E h \in liveTimers : Tick(h)
    \/ Cleanup
    \/ \E k \in 1..Len(inflight) : StoreApply(k)
    \/ \E k \in 1..Len(inflight) : WriteOk(k)
    \/ \E k \in 1..Len(inflight) : WriteFail(k)
    \/ ChangeEvent
    \/ ChangeLost
    \/ Fetch
    \/ FetchError
    \/ Refetch
    \/ Advance

SpecSkew == InitSkew /\ [][NextSkew]_vars

\* ---- sessions with sound -------------------------------------------------

\* initialize calls and settings saves in a session with sound
MaxInitsFx == 2
MaxSaves == 1

\* stored settings and browsers of the sessions with sound: no settings on
\* a desktop; auto-open switched off, notifications granted; a mobile
\* browser whose Notification constructor throws; unparsable settings and
\* a browser that rejects play(); a browser that cannot load the ringtone
\* file but plays /notification.mp3
FxProfiles ==
    { << NoSettings, Browser(FALSE, "denied", "ok") >>,
      << Settings(TRUE, FALSE), Browser(FALSE, "granted", "ok") >>,
      << Settings(TRUE, TRUE), Browser(TRUE, "throws", "ok") >>,
      << CorruptSettings, Browser(FALSE, "denied", "rejected") >>,
      << Settings(TRUE, FALSE), Browser(FALSE, "denied", "fallback") >> }

\* the settings a save may store: auto-open switched off, and sound
\* switched off
SavedSettings == { Settings(TRUE, FALSE), Settings(FALSE, TRUE) }

\* sessions of pages/Index with an inactive and an active daily reminder
\* stored
InitFx ==
    /\ jumpsLeft = 0
    /\ variant = "index"
    /\ now = WindowOpen
    /\ sessionEnd = AddMs(now, ShortHorizonMs)
    /\ db = << RowDaily(1, FALSE, NoDate), RowDaily(2, TRUE, NoDate) >>
    /\ \E p \in FxProfiles : settings = p[1] /\ env = p[2]
    /\ initsLeft = MaxInitsFx
    /\ opsLeft = 0
    /\ savesLeft = MaxSaves
    /\ SessionStart

NextFx ==
    \/ SetReminders
    \/ Initialize
    \/ \E h \in liveTimers : Tick(h)
    \/ Cleanup
    \/ Silence
    \/ FadeStep
    \/ MediaEvent
    \/ \E stored \in SavedSettings : SaveSettings(stored)
    \/ \E enabled \in BOOLEAN : SetAutoTrigger(enabled)
    \/ AudioError
    \/ AudioEnded
    \/ PlayRejected
    \/ FallbackEnded
    \/ \E k \in 1..Len(inflight) : StoreApply(k)
    \/ \E k \in 1..Len(inflight) : WriteOk(k)
    \/ \E k \in 1..Len(inflight) : WriteFail(k)
    \/ ChangeEvent
    \/ Fetch
    \/ Refetch
    \/ Advance

SpecFx == InitFx /\ [][NextFx]_vars

\* ---- sessions of the service's lifecycle ---------------------------------

\* initialize calls in a lifecycle session
MaxInitsLife == 2

\* sessions of pages/Index in a desktop browser with notifications granted,
\* sound switched on and auto-open switched off in the stored settings,
\* which are not touched; an inactive and an active daily reminder stored
InitLife ==
    /\ jumpsLeft = 0
    /\ variant = "index"
    /\ now = WindowOpen
    /\ sessionEnd = AddMs(now, ShortHorizonMs)
    /\ db = << RowDaily(1, FALSE, NoDate), RowDaily(2, TRUE, NoDate) >>
    /\ settings = Settings(TRUE, FALSE)
    /\ env = Browser(FALSE, "granted", "ok")
    /\ initsLeft = MaxInitsLife
    /\ opsLeft = 0
    /\ savesLeft = 0
    /\ SessionStart

NextLife ==
    \/ SetReminders
    \/ Initialize
    \/ \E h \in liveTimers : Tick(h)
    \/ Cleanup
    \/ Silence
    \/ MediaEvent
    \/ \E k \in 1..Len(inflight) : StoreApply(k)
    \/ \E k \in 1..Len(inflight) : WriteOk(k)
    \/ \E k \in 1..Len(inflight) : WriteFail(k)
    \/ ChangeEvent
    \/ ChangeLost
    \/ Fetch
    \/ FetchError
    \/ Refetch
    \/ Advance

SpecLife == InitLife /\ [][NextLife]_vars

\* ---- sessions with fair delivery of change events and fetches ------------

\* sessions of pages/Index with one active daily reminder stored
InitSync ==
    /\ jumpsLeft = MaxJumps
    /\ variant = "index"
    /\ now = LateStart
    /\ sessionEnd = AddMs(now, ShortHorizonMs)
    /\ db = << RowDaily(1, TRUE, NoDate) >>
    /\ settings = Settings(FALSE, FALSE)
    /\ env = Browser(FALSE, "denied", "ok")
    /\ initsLeft = MaxInits
    /\ opsLeft = 0
    /\ savesLeft = 0
    /\ SessionStart

NextSync ==
    \/ SetReminders
    \/ Initialize
    \/ \E h \in liveTimers : Tick(h)
    \/ Cleanup
    \/ \E k \in 1..Len(inflight) : StoreApply(k)
    \/ \E k \in 1..Len(inflight) : WriteOk(k)
    \/ \E k \in 1..Len(inflight) : WriteFail(k)
    \/ ChangeEvent
    \/ Fetch
    \/ Refetch
    \/ Advance

\* every change message reaches the subscription, an invalidated query is
\* fetched and the fetch answers without error, and the page's effect hands
\* a changed list of active reminders to setReminders
SpecSync ==
    /\ InitSync
    /\ [][NextSync]_vars
    /\ WF_vars(ChangeEvent)
    /\ WF_vars(Fetch)
    /\ WF_vars(Refetch)
    /\ WF_vars(SetReminders)

\* ---- sessions with the user clicking notifications -----------------------

\* sessions of pages/Index on a desktop browser with sound on, auto-open off
\* and notifications granted, one active daily reminder stored
InitFade ==
    /\ jumpsLeft = 0
    /\ variant = "index"
    /\ now = LateStart
    /\ sessionEnd = AddMs(now, ShortHorizonMs)
    /\ db = << RowDaily(1, TRUE, NoDate) >>
    /\ settings = Settings(TRUE, FALSE)
    /\ env = Browser(FALSE, "granted", "ok")
    /\ initsLeft = MaxInits
    /\ opsLeft = 0
    /\ savesLeft = 0
    /\ SessionStart

NextFade ==
    \/ SetReminders
    \/ Initialize
    \/ \E h \in liveTimers : Tick(h)
    \/ Cleanup
    \/ Silence
    \/ FadeStep
    \/ MediaEvent
    \/ NotificationClick
    \/ \E k \in 1..Len(inflight) : StoreApply(k)
    \/ \E k \in 1..Len(inflight) : WriteOk(k)
    \/ \E k \in 1..Len(inflight) : WriteFail(k)
    \/ ChangeEvent
    \/ Fetch
    \/ Refetch
    \/ Advance

SpecFade == InitFade /\ [][NextFade]_vars

\* ---- sessions with the user writing to the store -------------------------

\* user writes in a session
MaxUserOps == 1

\* sessions of pages/Index with one active daily reminder stored, in which
\* the user toggles, edits or deletes it, adds a reminder or restores a
\* backup
InitStore ==
    /\ jumpsLeft = 0
    /\ variant = "index"
    /\ now = WindowOpen
    /\ sessionEnd = AddMs(now, ShortHorizonMs)
    /\ db = << RowDaily(1, TRUE, NoDate) >>
    /\ settings = Settings(FALSE, FALSE)
    /\ env = Browser(FALSE, "denied", "ok")
    /\ initsLeft = MaxInits
    /\ savesLeft = 0
    /\ opsLeft = MaxUserOps
    /\ SessionStart

NextStore ==
    \/ SetReminders
    \/ Initialize
    \/ \E h \in liveTimers : Tick(h)
    \/ Cleanup
    \/ \E i \in 1..Len(queryData) : UserToggle(i)
    \/ \E i \in 1..Len(queryData) : UserDelete(i)
    \/ \E i \in 1..Len(queryData) : UserEdit(i)
    \/ UserAdd
    \/ \E backup \in Backups : UserRestore(backup)
    \/ \E k \in 1..Len(inflight) : StoreApply(k)
    \/ \E k \in 1..Len(inflight) : WriteOk(k)
    \/ \E k \in 1..Len(inflight) : WriteFail(k)
    \/ ChangeEvent
    \/ ChangeLost
    \/ Fetch
    \/ FetchError
    \/ Refetch
    \/ Advance

SpecStore == InitStore /\ [][NextStore]_vars

\* toggles of the reminder in a session
MaxToggles == 2

\* sessions of pages/Index with one active daily reminder stored, which the
\* user toggles more than once
InitToggle ==
    /\ jumpsLeft = 0
    /\ variant = "index"
    /\ now = WindowOpen
    /\ sessionEnd = AddMs(now, ShortHorizonMs)
    /\ db = << RowDaily(1, TRUE, NoDate) >>
    /\ settings = Settings(FALSE, FALSE)
    /\ env = Browser(FALSE, "denied", "ok")
    /\ initsLeft = MaxInits
    /\ savesLeft = 0
    /\ opsLeft = MaxToggles
    /\ SessionStart

NextToggle ==
    \/ SetReminders
    \/ Initialize
    \/ \E h \in liveTimers : Tick(h)
    \/ Cleanup
    \/ \E i \in 1..Len(queryData) : UserToggle(i)
    \/ \E k \in 1..Len(inflight) : StoreApply(k)
    \/ \E k \in 1..Len(inflight) : WriteOk(k)
    \/ \E k \in 1..Len(inflight) : WriteFail(k)
    \/ ChangeEvent
    \/ ChangeLost
    \/ Fetch
    \/ FetchError
    \/ Refetch
    \/ Advance

SpecToggle == InitToggle /\ [][NextToggle]_vars

----------------------------------------------------------------------------
(* Properties of the scheduler session, stated over the log of firings.    *)

\* firing j comes after firing i, for the same reminder and the same
\* scheduled instant, while the cool-down after firing i still lasts
Refires(i, j) ==
    /\ i < j
    /\ fired[j].arg.id = fired[i].arg.id
    /\ fired[j].instant = fired[i].instant
    /\ DateLt(fired[j].at, AddMs(fired[i].at, CooldownMs))

\* C1: across the timer ticks of one scheduler session that fall in the due
\* window of one scheduled instant, a reminder's side effects and
\* due-callback are invoked exactly once, never twice, however the ticks
\* interleave with the lastTriggered write, the change notification and the
\* cache refresh.
C1_OncePerDueWindow ==
    \A i, j \in 1..Len(fired) :
        ~ ( /\ Refires(i, j)
            /\ fired[i].via \in {"init", "tick"}
            /\ fired[j].via = "tick"
            /\ fired[j].session = fired[i].session )

\* C2: two checkReminder calls in rapid succession on the same reminder
\* object, its lastTriggered unchanged between the calls, both inside the
\* due window and the cool-down, fire at most once.
C2_RapidCallsFireAtMostOnce ==
    \A i, j \in 1..Len(fired) :
        ( /\ i < j
          /\ fired[j].arg = fired[i].arg
          /\ DateLt(fired[j].at, AddMs(fired[i].at, CooldownMs)) )
        => fired[j].instant # fired[i].instant

\* C3: when the lastTriggered write issued after a firing fails, the
\* reminder is not fired again on a later tick of the same session while
\* the cool-down lasts, the stored and cached lastTriggered being unchanged.
C3_FailedWriteStillSuppressed ==
    \A i \in failed : \A j \in 1..Len(fired) :
        ~ ( /\ Refires(i, j)
            /\ fired[j].via = "tick"
            /\ fired[j].session = fired[i].session
            /\ fired[j].arg.lastTriggered = fired[i].arg.lastTriggered
            /\ \A k \in 1..Len(db) :
                 db[k].id = fired[i].arg.id
                   => db[k].lastTriggered = fired[i].arg.lastTriggered )

\* C9: a one-time reminder that has fired never reports due again: no later
\* checkReminder call on it, from a tick or directly, fires.
C9_OnceNeverFiresAgain ==
    \A i, j \in 1..Len(fired) :
        (i < j /\ fired[i].arg.frequency = "once")
            => fired[j].arg.id # fired[i].arg.id

\* no reminder of the cache fires when checked now
NoCachedDue ==
    \A i \in 1..Len(reminders) : ~checkFires(reminders[i], now, now, now)

\* C12: a tick at which no cached reminder is due, while the alert sound is
\* playing, stops the sound with a fade-out.
C12_QuietTickStopsSound ==
    [][ ((\E h \in liveTimers : Tick(h)) /\ NoCachedDue /\ audio = "playing")
            => fades' = fades + 1 ]_vars

\* the last lifecycle call (none: "")
LastCall == IF lifecycle = <<>> THEN "" ELSE lifecycle[Len(lifecycle)]

\* C13: after any sequence of initialize, setReminders, silenceReminder and
\* cleanup calls at most one repeating check timer is live: exactly one,
\* the one the service holds, when the last lifecycle call was initialize,
\* and none when it was cleanup.
C13_AtMostOneTimer ==
    /\ Cardinality(liveTimers) <= 1
    /\ LastCall = "initialize" => (checkInterval # 0 /\ liveTimers = {checkInterval})
    /\ LastCall = "cleanup" => (checkInterval = 0 /\ liveTimers = {})
    /\ LastCall = "" => liveTimers = {}

\* a second initialize directly after the first: the first timer is
\* cancelled, the second is live
C13_Witness ==
    /\ lifecycle = << "initialize", "initialize" >>
    /\ checkInterval = 2
    /\ liveTimers = {2}

\* C14: after cleanup() returns the scheduler is idle: no timer is live (no
\* tick runs until the next initialize), the cached list is empty, and any
\* alert sound that was playing has been stopped at once, with
\* isSoundActive() false, also when a fade-out was in progress.
C14_CleanupLeavesIdle ==
    LastCall = "cleanup" =>
        /\ liveTimers = {}
        /\ reminders = <<>>
        /\ audio # "playing"
        /\ orphans = 0
        /\ strays = 0
        /\ mediaEvents = <<>> => ~isSoundPlaying

\* C15: setReminders(list) replaces the cache with the active members of
\* list, in order, and changes nothing else: the timer handle and its phase,
\* the registered due-callback, the auto-trigger flag and the sound state;
\* the cache holds only active reminders in every reachable state.
C15_SetRemindersFrame ==
    /\ [](\A i \in 1..Len(reminders) : reminders[i].isActive)
    /\ [][ (reminders' # reminders /\ lifecycle' = lifecycle) =>
              /\ reminders' = SelectSeq(queryData, LAMBDA r : r.isActive)
              /\ UNCHANGED <<checkInterval, liveTimers, nextTick, nextHandle,
                             onReminderDue, autoTriggerEnabled, audio, volume,
                             orphans, fades, isSoundPlaying, mediaEvents>> ]_vars

\* setReminders has replaced the cache after a firing (the cached reminder
\* carries the lastTriggered written for it) while the timer is live and
\* the sound of that firing is playing
C15_Witness ==
    /\ Len(reminders) = 1
    /\ reminders[1].lastTriggered # NoDate
    /\ Len(db) = 2
    /\ ~db[1].isActive
    /\ liveTimers = {checkInterval}
    /\ \E h \in liveTimers : nextTick[h] = now
    /\ audio = "playing"
    /\ isSoundPlaying

\* C17: on a firing each side effect is attempted independently: when the
\* sound, the settings or the notification fails, the remaining side effects
\* (the deep link under auto-trigger), the due-callback and the
\* lastTriggered write still happen.
C17_EffectsIndependent ==
    \A i \in 1..Len(fired) :
        /\ {"callback", "write"} \subseteq fired[i].effects
        /\ fired[i].autoTrigger => "open" \in fired[i].effects

\* C18: a failed lastTriggered write is swallowed: the firing's side effects
\* and due-callback have happened, checkReminder resolves to true, the
\* write is not sent again, and the timers and the cache are left as they
\* are, so the ticks go on checking every cached reminder.
C18_WriteFailureSwallowed ==
    /\ [](\A i \in failed :
            /\ {"callback", "write"} \subseteq fired[i].effects
            /\ outcome[i] = "true"
            /\ \A k \in 1..Len(inflight) : inflight[k].fire # i)
    /\ [][ failed' # failed =>
              UNCHANGED <<fired, reminders, checkInterval, liveTimers,
                          nextTick>> ]_vars

\* a write failed and a tick of the same timer has checked and fired the
\* cached reminder after that firing
C18_Witness ==
    \E i \in failed : \E j \in 1..Len(fired) :
        /\ i < j
        /\ fired[j].via = "tick"
        /\ fired[j].session = fired[i].session
        /\ outcome[i] = "true"
        /\ liveTimers # {}

\* C20: for every firing the deep link is opened automatically if and only
\* if the auto-open setting held in the stored settings is enabled at the
\* moment of the firing, including firings by the immediate check of
\* initialize and firings after the stored setting was changed.
C20_AutoOpenFollowsSetting ==
    \A i \in 1..Len(fired) :
        "callback" \in fired[i].effects =>
            ("open" \in fired[i].effects <=> fired[i].storedAutoOpen)

\* a row without its lastTriggered field
WithoutLastTriggered(r) == [r EXCEPT !.lastTriggered = NoDate]

\* C16: the scheduler's write after a firing changes only lastTriggered of
\* that reminder's stored record: under every interleaving with the user's
\* toggle and delete writes, every other stored field keeps the value of
\* the user's most recent write, and the scheduler neither creates nor
\* deletes a record.
C16_WriteOnlyLastTriggered ==
    /\ \A k, m \in 1..Len(db) : db[k].id = db[m].id => k = m
    /\ \A k \in 1..Len(db) :
          db[k].id = 1 \/ \E u \in userLast : u.row.id = db[k].id /\ ~u.gone
    /\ \A u \in userLast :
          IF u.gone
          THEN \A k \in 1..Len(db) : db[k].id # u.row.id
          ELSE \E k \in 1..Len(db) :
                  WithoutLastTriggered(db[k]) = WithoutLastTriggered(u.row)
    /\ (\A u \in userLast : u.row.id # 1) => \E k \in 1..Len(db) : db[k].id = 1


\* C22: for a recurring reminder, getNextOccurrence on a copy whose
\* lastTriggered is the first result returns the occurrence that follows
\* the first one: an instant strictly later than the first result.
C22_SecondOccurrenceFollows ==
    (cPc = "done" /\ cReminder.frequency \in {"daily", "weekly", "monthly"}
        /\ cNext # NoDate)
    => /\ cSecond # NoDate
       /\ DateLt(cNext, cSecond)


\* today's weekday is selected and today's instant at the reminder's time
\* is <= now: today is the weekday of now (read at n), today's instant is
\* reminderTime, the day read at m set to the reminder's time
WeeklyPassedToday(r, n, m) ==
    /\ r.frequency = "weekly"
    /\ r.weekDays # NoWeekDays
    /\ \E d \in r.weekDays : dayMap(d) = getDay(n)
    /\ DateLe(AtTime(m, 0, r.time), n)

\* C24: weekly, today's weekday selected and today's instant <= now: the
\* result is the instant exactly 7 days after today's instant, whatever
\* other weekdays are selected.
C24_WeeklyPassedTodaySevenDays ==
    (cPc = "done" /\ WeeklyPassedToday(cReminder, cNow, cThen))
    => /\ cNext = AtTime(cThen, 7, cReminder.time)
       /\ cNext = AtTime(cNow, 7, cReminder.time)

\* today and tomorrow are both selected, now is exactly today's instant,
\* and the result is the same weekday next week
C24_Witness ==
    /\ cPc = "done"
    /\ WeeklyPassedToday(cReminder, cNow, cThen)
    /\ cNow = AtTime(cNow, 0, cReminder.time)
    /\ \E d \in cReminder.weekDays : dayMap(d) = (getDay(cNow) + 1) % 7
    /\ cNext = AtTime(cNow, 7, cReminder.time)
    /\ getDay(cNext) = getDay(cNow)

\* the year and month (0-based, carried into the year) that the monthly
\* case targets: the month of reminderTime (read at m), or the month after
\* it once the instant of day monthDay in that month (as the calendar
\* overflows it) is <= now (read at n)
MonthlyTarget(r, n, m) ==
    LET k == MonthFromDay(m.day) + (IF DateLe(ThisMonthAt(r, m), n) THEN 1 ELSE 0)
        y == YearFromDay(m.day)
    IN  [year |-> y + (k \div 12), month |-> k % 12]

\* C25: monthly, monthDay beyond the length of the month the calculator
\* targets: the excess days overflow into the following month (31 in a
\* 30-day month gives day 1 of the next month, 31 in a 28-day February gives
\* 3 March), never the last day of the targeted month; the result is
\* strictly after now.
C25_MonthlyOverflows ==
    (CalcDone("monthly") /\ cReminder.monthDay >= 1) =>
        LET t == MonthlyTarget(cReminder, cNow, cThen)
            len == DaysInMonth(t.year, t.month)
        IN  cReminder.monthDay > len =>
              /\ cNext # NoDate
              /\ DateLt(cNow, cNext)
              /\ MonthFromDay(cNext.day) = (t.month + 1) % 12
              /\ DateFromDay(cNext.day) = cReminder.monthDay - len
              /\ cNext.ms = TimeMs(cReminder.time)

\* monthDay 31, January's instant has passed, February has 28 days: the
\* result is 3 March
C25_Witness ==
    /\ CalcDone("monthly")
    /\ cReminder.monthDay = 31
    /\ MonthFromDay(cNow.day) = 0
    /\ DateLe(ThisMonthAt(cReminder, cNow), cNow)
    /\ MonthFromDay(cNext.day) = 2
    /\ DateFromDay(cNext.day) = 3


\* C26: for all four frequencies every non-none result of getNextOccurrence
\* is strictly later than now, so the offset checkReminder computes is
\* never negative, and a firing happens at most 30 whole seconds before its
\* scheduled instant, never at or after it.
C26_ResultStrictlyLater ==
    (cPc = "done" /\ cNext # NoDate) =>
        /\ DateLt(cNow, cNext)
        /\ FloorDiffSecs(cNext, cCheck) >= 0
        /\ cFired => FloorDiffSecs(cNext, cCheck) <= DueToleranceSecs

\* a weekly reminder has fired 30.999 s before its instant, which is today
C26_Witness ==
    /\ CalcDone("weekly")
    /\ cFired
    /\ cNext = AtTime(cNow, 0, cReminder.time)
    /\ FloorDiffSecs(cNext, cCheck) = DueToleranceSecs
    /\ cNext.ms - cCheck.ms = 30999


\* C30: toggleReminderActive(id) flips only the isActive field of the
\* stored reminder with that id, and two toggles of one reminder, issued
\* one after the other, leave its stored isActive as it was at first (the
\* stored reminder starts active), under every interleaving of the two
\* updates with the refetch of the list.
C30_ToggleTwiceRestores ==
    /\ [](\A u \in userLast :
            (~u.gone /\ u.toggles = 2) =>
                \A k \in 1..Len(db) : db[k].id = u.row.id => db[k].isActive)
    /\ [][ \A u \in userLast' \ userLast :
              (u.by = "user" /\ Len(db') = Len(db)) =>
                  \A k \in 1..Len(db) :
                      db'[k] = IF db[k].id = u.row.id
                               THEN [db[k] EXCEPT !.isActive = ~@]
                               ELSE db[k] ]_vars


\* C28: when silenceReminder() returns, no alert sound started by the
\* scheduler is playing and isSoundActive() is false, whatever calls of
\* initialize (a second one without cleanup while the sound plays
\* included), firings, fade-outs and setReminders calls came before.
C28_SilenceStopsEverySound ==
    [][ Silence => /\ audio' # "playing"
                   /\ orphans' = 0
                   /\ strays' = 0
                   /\ ~isSoundPlaying' ]_vars


\* C29: a fade-out started by an earlier stop never silences a sound
\* started by a later firing: when a firing starts the sound again, no fade
\* timer is left over from an earlier stop (such a timer's next callback
\* lowers the volume of the sound it finds, and pauses it in the end).
C29_NoLeftoverFade ==
    [][ (audio # "playing" /\ audio' = "playing") => fades = 0 ]_vars


\* the first time at which checkReminder reports the instant SchedAt due
WindowStart == AddMs(SchedAt, 0 - (DueToleranceSecs * MsPerSecond + 999))

\* the cached reminder r has SchedAt as a scheduled instant and its
\* lastTriggered is null or older than 5 minutes throughout the due window
Awaited(r) ==
    /\ getNextOccurrence(r, WindowStart, WindowStart) = SchedAt
    /\ cooledDown(r, WindowStart)

\* C27: no occurrence is missed: when the scheduler has been Active with
\* its 15-second tick, and a reminder has stayed in the cache, active, with
\* lastTriggered null or older than 5 minutes, from the start of the due
\* window of its scheduled instant until that instant, it has fired for
\* that instant.
C27_NoOccurrenceMissed ==
    \A k \in 1..Len(reminders) :
        (/\ reminders[k].id \in DOMAIN watched
         /\ DateLe(watched[reminders[k].id], WindowStart)
         /\ DateLe(SchedAt, now)
         /\ Awaited(reminders[k]))
        => \E j \in 1..Len(fired) :
              /\ fired[j].arg.id = reminders[k].id
              /\ fired[j].instant = SchedAt
              /\ fired[j].via \in {"tick", "init"}

\* the instant has come; the reminder, cached since before its due window
\* and never updated in the cache, was fired for it by a tick
C27_Witness ==
    /\ now = SchedAt
    /\ Len(reminders) = 1
    /\ reminders[1].id \in DOMAIN watched
    /\ DateLe(watched[reminders[1].id], WindowStart)
    /\ Awaited(reminders[1])
    /\ Len(fired) >= 1
    /\ fired[1].via = "tick"
    /\ fired[1].instant = SchedAt
    /\ DateLe(WindowStart, fired[1].at)


\* the ids of the rows the sessions store
SyncIds == {1, 2}

\* the store has applied the write of a firing of reminder id and answered
\* without error, and value is the lastTriggered that write carried
Written(id, value) ==
    \E j \in 1..Len(fired) :
        /\ fired[j].arg.id = id
        /\ outcome[j] = "true"
        /\ j \notin failed
        /\ fired[j].stamp = value

\* the cached copy of reminder id carries that lastTriggered
Carries(id, value) ==
    \E m \in 1..Len(reminders) :
        reminders[m].id = id /\ reminders[m].lastTriggered = value

\* the scheduler is Active, reminder id is stored and active with the
\* lastTriggered a firing wrote, and the cached copy does not carry it
Behind(id) ==
    /\ Mounted
    /\ \E k \in 1..Len(db) :
          /\ db[k].id = id
          /\ db[k].isActive
          /\ Written(id, db[k].lastTriggered)
          /\ ~Carries(id, db[k].lastTriggered)

\* C23: after a firing whose lastTriggered write succeeds, and provided the
\* reminder stays active and stored with that value and the scheduler stays
\* Active, the scheduler's cached copy of that reminder eventually carries
\* the written lastTriggered (change event, refetch, setReminders), under
\* fair delivery of change events and fetches.
C23_CacheEventuallyCarries ==
    \A id \in SyncIds : Behind(id) ~> ~Behind(id)

\* the cached copy carries the lastTriggered a successful write stored, in
\* an Active scheduler, after it was behind the store
C23_Witness ==
    /\ Mounted
    /\ Len(db) = 1
    /\ db[1].isActive
    /\ Written(1, db[1].lastTriggered)
    /\ Carries(1, db[1].lastTriggered)
    /\ ~stale
    /\ inflight = <<>>

====
